---------------------------- MODULE Spec2Model ----------------------------
(***************************************************************************)
(* Tempesta FW: the HTTP parser test harness (chunked feeding of HTTP/1.x  *)
(* and HTTP/2 messages to the incremental parsers, the HTTP/2 frame and    *)
(* literal-header builders) and the parsers it drives.                     *)
(*                                                                         *)
(* Bytes are integers 0..255; Str("...") turns a literal into its bytes.   *)
(* The parsers themselves (tfw_http_parse_req, tfw_http_parse_resp,        *)
(* tfw_h2_parse_req, the HPACK integer coder, the numeric and ETag field   *)
(* validators) are byte-at-a-time state machines over a reduced grammar:   *)
(*   request  = ("G" | "H" | "P") LF *( name ":" value LF ) LF body        *)
(*   response = "2" LF *( name ":" value LF ) LF body                      *)
(*   name     = "c" (Content-Length) | "x" (any other header)              *)
(* with LF the one-byte line end.                                          *)
(***************************************************************************)
EXTENDS Integers, Sequences, FiniteSets, TLC

VARIABLES
    \* ---- the harness (statics of the test helper) ----
    pc,                 \* position of the test loop
    tcase,              \* the prepared test case: type, chunk_mode, macro, inputs
    frames,             \* frames[0 .. frames_cnt): <<[len, str, subtype]>>
    frames_max_sz,
    frames_total_sz,
    hm_exp_len,
    chunk_size_index,
    req,                \* the request object (NULL before the first allocation)
    resp,               \* the response object
    sample_req,         \* the request a response is paired with
    conn,               \* TfwH2Conn: frame cursor and HPACK decoder
    stream,             \* TfwStream: state
    loc,                \* locals of do_split_and_parse / split_and_parse_n
    hist,               \* history: one record per finished do_split_and_parse
    \* ---- HPACK literal header coding ----
    hp,
    \* ---- field value validators (numeric, ETag) ----
    val,
    \* ---- a parsed multi-value header and the value iterator ----
    hstr,
    \* ---- the HPACK dynamic table of one connection ----
    tbl,
    \* ---- parser instances of two connections ----
    peers,
    \* ---- sock_clnt.c: the listen sockets and the connection hook ----
    listen_socks,       \* struct socket *listen_socks[LISTEN_SOCKS_MAX]
    listen_socks_n,
    protos,             \* SsProto protos[LISTEN_SOCKS_MAX]
    socks,              \* the kernel's sockets, by identity
    call,               \* the last call of a sock_clnt.c function and its result
    estab,              \* client sockets: connection and client objects
    \* ---- the chunk-size iteration of one test case ----
    iter,
    \* ---- one call of split_and_parse_n and the chunks it hands over ----
    split

harnessVars == <<pc, tcase, frames, frames_max_sz, frames_total_sz, hm_exp_len,
                 chunk_size_index, req, resp, sample_req, conn, stream, loc, hist>>
sockVars == <<listen_socks, listen_socks_n, protos, socks, call, estab>>
runVars == <<iter, split>>
extVars == <<hstr, tbl, peers, sockVars, runVars>>
vars == <<harnessVars, hp, val, extVars>>

-----------------------------------------------------------------------------
(* Bytes and literals *)

AsciiLo == " !\"#$%&'()*+,-./0123456789:;<=>?@ABCDEFGHIJKLMNOPQRSTUVWXYZ[\\]^_"
AsciiHi == "abcdefghijklmnopqrstuvwxyz{|}~"

\* The byte of a one-character literal.
Ord(c) ==
    CASE c = "\n" -> 10
      [] c = "\r" -> 13
      [] c = "\t" -> 9
      [] \E i \in 1..Len(AsciiLo) : SubSeq(AsciiLo, i, i) = c
           -> 31 + CHOOSE i \in 1..Len(AsciiLo) : SubSeq(AsciiLo, i, i) = c
      [] OTHER
           -> 96 + CHOOSE i \in 1..Len(AsciiHi) : SubSeq(AsciiHi, i, i) = c

\* The bytes of a literal.
Str(s) == [i \in 1..Len(s) |-> Ord(SubSeq(s, i, i))]

\* The set of the bytes of a literal.
Chars(s) == {Ord(SubSeq(s, i, i)) : i \in 1..Len(s)}

\* strlen(): a C string ends at its first NUL byte.
strlen(s) ==
    IF \E i \in 1..Len(s) : s[i] = 0
    THEN (CHOOSE i \in 1..Len(s) : s[i] = 0 /\ \A j \in 1..(i - 1) : s[j] # 0) - 1
    ELSE Len(s)

CStr(s) == SubSeq(s, 1, strlen(s))

Min(a, b) == IF a <= b THEN a ELSE b
Max(a, b) == IF a >= b THEN a ELSE b

RECURSIVE SeqSum(_)
SeqSum(s) == IF s = <<>> THEN 0 ELSE Head(s) + SeqSum(Tail(s))

RECURSIVE Flatten(_)
Flatten(ss) == IF ss = <<>> THEN <<>> ELSE Head(ss) \o Flatten(Tail(ss))

\* All sequences over S of length 0..n.
SeqsUpTo(S, n) == UNION {[1..k -> S] : k \in 0..n}

TFW_PASS     == "PASS"
TFW_POSTPONE == "POSTPONE"
TFW_BLOCK    == "BLOCK"


-----------------------------------------------------------------------------
(* Alphabets of the test helper *)

TOKEN_ALPHABET ==
    Chars("!#$%&'*+-.0123456789ABCDEFGHIJKLMNOPQRSTUVWXYZ^_abcdefghijklmnopqrstuvwxyz|~")
        \cup {96}
QETOKEN_ALPHABET == TOKEN_ALPHABET \cup Chars("\"=")
OTHER_DELIMETERS == Chars("(),/:;<=>?@[\\]{}")
OBS_TEXT == {128, 144, 200, 174, 254, 255}
ETAG_ALPHABET_as_vchar == Chars(" \"") \cup OTHER_DELIMETERS \cup TOKEN_ALPHABET \cup OBS_TEXT
ETAG_ALPHABET == OTHER_DELIMETERS \cup TOKEN_ALPHABET \cup OBS_TEXT
VCHAR_ALPHABET == Chars("\t \"") \cup OTHER_DELIMETERS \cup TOKEN_ALPHABET \cup OBS_TEXT

DIGITS == Chars("0123456789")
CH_0  == Ord("0")

-----------------------------------------------------------------------------
(* Bounded unsigned integers of a numeric field.  A value is kept as its   *)
(* limbs in base 10^4, least significant first, without leading zero       *)
(* limbs, so that 2^64 is representable.                                   *)

LimbBase == 100 * 100

RECURSIVE BigMulAdd(_, _, _)
\* a * m + carry
BigMulAdd(a, m, carry) ==
    IF a = <<>>
    THEN IF carry = 0 THEN <<>>
         ELSE <<carry % LimbBase>> \o BigMulAdd(<<>>, m, carry \div LimbBase)
    ELSE LET t == Head(a) * m + carry
         IN  <<t % LimbBase>> \o BigMulAdd(Tail(a), m, t \div LimbBase)

RECURSIVE BigPow2(_)
\* 2^w, sixteen bits at a time
BigPow2(w) ==
    IF w <= 16 THEN BigMulAdd(<<>>, 1, 2^w) ELSE BigMulAdd(BigPow2(w - 16), 2^16, 0)

\* a < b
BigLess(a, b) ==
    \/ Len(a) < Len(b)
    \/ /\ Len(a) = Len(b)
       /\ \E i \in 1..Len(a) :
            /\ a[i] < b[i]
            /\ \A j \in (i + 1)..Len(a) : a[j] = b[j]

\* The widths (in bits) of the numeric fields and their limits 2^width.
NUM_WIDTHS == {16, 32, 63, 64}
NumLimit == [w \in NUM_WIDTHS |-> BigPow2(w)]

RECURSIVE BigToInt(_)
\* The value of a, for a below 2^31.
BigToInt(a) == IF a = <<>> THEN 0 ELSE Head(a) + LimbBase * BigToInt(Tail(a))

\* The state of the numeric field parser: the value so far, the number of
\* digits seen, and whether the field is already rejected.
NumInit == [acc |-> <<>>, n |-> 0, bad |-> FALSE]

\* One byte of a numeric field of the given width (in bits): a decimal digit
\* extends the value, which must stay below 2^width; any other byte (blank,
\* sign, dot, letter, quote) rejects the field.
NumStep(ns, b, width) ==
    IF ns.bad THEN ns
    ELSE IF b \notin DIGITS THEN [ns EXCEPT !.bad = TRUE]
    ELSE LET v == BigMulAdd(ns.acc, 10, b - CH_0)
         IN  IF BigLess(v, NumLimit[width])
             THEN [acc |-> v, n |-> ns.n + 1, bad |-> FALSE]
             ELSE [ns EXCEPT !.bad = TRUE]

\* End of the field: an empty field is rejected.
NumFinish(ns) ==
    IF ns.bad \/ ns.n = 0
    THEN [r |-> TFW_BLOCK, value |-> <<>>]
    ELSE [r |-> TFW_PASS, value |-> ns.acc]

RECURSIVE NumRun(_, _, _)
NumRun(ns, data, width) ==
    IF data = <<>> THEN ns ELSE NumRun(NumStep(ns, Head(data), width), Tail(data), width)

\* A whole field value at once.
NumParse(data, width) == NumFinish(NumRun(NumInit, data, width))

CONTENT_LENGTH_WIDTH == 64

-----------------------------------------------------------------------------
(* The HTTP/1.x state machine (request and response), one byte at a time.  *)

FUZZ_REQ    == "FUZZ_REQ"
FUZZ_REQ_H2 == "FUZZ_REQ_H2"
FUZZ_RESP   == "FUZZ_RESP"

LF       == Ord("\n")
COLON    == Ord(":")
STATUS_2 == Ord("2")
METH_H   == Ord("H")
NAME_C   == Str("c")
NAME_M   == Str("m")
METHODS          == Chars("GHP")
BODYLESS_METHODS == Chars("GH")
HDR_NAMES        == Chars("cx")

\* The resumption state of one message.
ParserInit ==
    [st     |-> "Start",    \* Start, LineEnd, HdrStart, Colon, Val, Body, Done, Block
     method |-> 0,
     hdrs   |-> <<>>,       \* the parsed headers: <<name, value>> pairs
     cn     |-> 0,          \* the name of the header being parsed
     cv     |-> <<>>,       \* its value so far
     clen   |-> 0,          \* the declared Content-Length
     left   |-> 0,          \* body bytes still owed
     body   |-> 0]          \* body bytes taken

HasHdr(ps, name) == \E i \in 1..Len(ps.hdrs) : ps.hdrs[i][1] = name

\* The end of a header line: a Content-Length must be a number and must not
\* repeat; the header is added to the table.
HdrAdd(ps, num, next) ==
    IF <<ps.cn>> = NAME_C
    THEN IF num.r = TFW_BLOCK \/ HasHdr(ps, NAME_C)
         THEN [ps EXCEPT !.st = "Block"]
         ELSE [ps EXCEPT !.st = next, !.hdrs = Append(@, <<<<ps.cn>>, ps.cv>>),
                         !.cn = 0, !.cv = <<>>, !.clen = BigToInt(num.value)]
    ELSE [ps EXCEPT !.st = next, !.hdrs = Append(@, <<<<ps.cn>>, ps.cv>>),
                    !.cn = 0, !.cv = <<>>]

HdrLineEnd(ps) == HdrAdd(ps, NumParse(ps.cv, CONTENT_LENGTH_WIDTH), "HdrStart")

\* The empty line that ends the header block: the body is Content-Length
\* bytes long; the response to a HEAD request has none.
HdrsComplete(ps, nobody) ==
    IF nobody \/ ps.clen = 0
    THEN [ps EXCEPT !.st = "Done"]
    ELSE [ps EXCEPT !.st = "Body", !.left = ps.clen]

\* kind: FUZZ_REQ or FUZZ_RESP; nobody: the message has no body whatever
\* its Content-Length (a response paired with a HEAD request).
H1Step(ps, b, kind, nobody) ==
    CASE ps.st = "Start" ->
            IF kind = FUZZ_RESP
            THEN IF b = STATUS_2 THEN [ps EXCEPT !.st = "LineEnd"]
                 ELSE [ps EXCEPT !.st = "Block"]
            ELSE IF b \in METHODS THEN [ps EXCEPT !.st = "LineEnd", !.method = b]
                 ELSE [ps EXCEPT !.st = "Block"]
      [] ps.st = "LineEnd" ->
            IF b = LF THEN [ps EXCEPT !.st = "HdrStart"]
            ELSE [ps EXCEPT !.st = "Block"]
      [] ps.st = "HdrStart" ->
            IF b = LF THEN HdrsComplete(ps, nobody)
            ELSE IF b \in HDR_NAMES THEN [ps EXCEPT !.st = "Colon", !.cn = b]
            ELSE [ps EXCEPT !.st = "Block"]
      [] ps.st = "Colon" ->
            IF b = COLON THEN [ps EXCEPT !.st = "Val"]
            ELSE [ps EXCEPT !.st = "Block"]
      [] ps.st = "Val" ->
            IF b = LF THEN HdrLineEnd(ps)
            ELSE IF b \in VCHAR_ALPHABET THEN [ps EXCEPT !.cv = Append(@, b)]
            ELSE [ps EXCEPT !.st = "Block"]
      [] ps.st = "Body" ->
            IF ps.left = 1
            THEN [ps EXCEPT !.st = "Done", !.left = 0, !.body = @ + 1]
            ELSE [ps EXCEPT !.left = @ - 1, !.body = @ + 1]
      [] OTHER -> ps

RECURSIVE H1Run(_, _, _, _, _)
\* Feed data[i..], ps being the state before data[i]: stop at the byte that
\* completes or rejects the message.  parsed counts the bytes taken, the
\* completing byte included.
H1Run(ps, data, i, kind, nobody) ==
    IF ps.st = "Block" THEN [r |-> TFW_BLOCK, parsed |-> Max(i - 2, 0), ps |-> ps]
    ELSE IF ps.st = "Done" THEN [r |-> TFW_PASS, parsed |-> i - 1, ps |-> ps]
    ELSE IF i > Len(data)
    THEN [r |-> TFW_POSTPONE, parsed |-> Len(data), ps |-> ps]
    ELSE H1Run(H1Step(ps, data[i], kind, nobody), data, i + 1, kind, nobody)

\* The outcome of a parser call on message m.
ParseOut(o, m) == [r |-> o.r, parsed |-> o.parsed, msg |-> [m EXCEPT !.ps = o.ps]]

\* Messages.  A message that was never allocated has alloc = FALSE (NULL).
NullMsg == [alloc |-> FALSE, len |-> 0, flags |-> {}, ps |-> ParserInit,
            pair |-> [valid |-> FALSE, method |-> 0]]

\* test_req_alloc() / test_resp_alloc(): a fresh, zeroed message.
MsgAlloc == [NullMsg EXCEPT !.alloc = TRUE]

\* What a response reads of the request it is paired with.
PairOf(rq) == [valid |-> rq.alloc /\ rq.ps.st = "Done", method |-> rq.ps.method]

\* tfw_http_parse_req(req, data, len, &parsed)
tfw_http_parse_req(rq, data) ==
    ParseOut(H1Run(rq.ps, data, 1, FUZZ_REQ, FALSE), rq)

\* tfw_http_parse_resp(resp, data, len, &parsed): a response can only be
\* parsed against a completed paired request.
tfw_http_parse_resp(rs, data) ==
    IF ~rs.pair.valid
    THEN [r |-> TFW_BLOCK, parsed |-> 0, msg |-> [rs EXCEPT !.ps.st = "Block"]]
    ELSE ParseOut(H1Run(rs.ps, data, 1, FUZZ_RESP, rs.pair.method = METH_H), rs)

-----------------------------------------------------------------------------
(* HPACK: the prefix integer, the literal header field without indexing.   *)

\* TfwDataRec
STR(data) == [buf |-> data, size |-> strlen(data)]
RAW(data) == [buf |-> data, size |-> Len(data)]
DataBytes(d) == SubSeq(d.buf, 1, d.size)

RECURSIVE IntCont(_)
\* The continuation octets of a prefix integer: 7 bits each, least
\* significant group first, bit 7 set on all but the last.
IntCont(index) ==
    IF index > 127
    THEN <<(index % 128) + 128>> \o IntCont(index \div 128)
    ELSE <<index>>

\* write_int(index, max, mask, &res): res.buf[0 .. res.sz)
write_int(index, max, mask) ==
    LET octets == IF index < max
                  THEN <<index + mask>>
                  ELSE <<max + mask>> \o IntCont(index - max)
    IN  [buf |-> octets, sz |-> Len(octets)]

\* tfw_h2_encode_data(data) on the builder buffer: the new buffer and the
\* size returned.
tfw_h2_encode_data_wrong_prefix(buf, data) ==
    LET hpint == write_int(data.size, 63, 0)
    IN  [buf |-> buf \o SubSeq(hpint.buf, 1, hpint.sz) \o DataBytes(data),
         ret |-> hpint.sz + data.size]

tfw_h2_encode_data(buf, data) ==
    LET hpint == write_int(data.size, 127, 0)
    IN  [buf |-> buf \o SubSeq(hpint.buf, 1, hpint.sz) \o DataBytes(data),
         ret |-> hpint.sz + data.size]

LIT_HDR_FLD_WO_IND == 0

\* tfw_h2_encode_header(header): the type octet, the name, the value.
tfw_h2_encode_header_swapped(buf, header) ==
    LET n == tfw_h2_encode_data(buf \o <<LIT_HDR_FLD_WO_IND>>, header.value)
        v == tfw_h2_encode_data(n.buf, header.name)
    IN  [buf |-> v.buf, ret |-> 1 + n.ret + v.ret]

tfw_h2_encode_header(buf, header) ==
    LET n == tfw_h2_encode_data(buf \o <<LIT_HDR_FLD_WO_IND>>, header.name)
        v == tfw_h2_encode_data(n.buf, header.value)
    IN  [buf |-> v.buf, ret |-> 1 + n.ret + v.ret]

\* The largest number of continuation octets the decoder takes.
HPACK_INT_MAX_CONT == 4

\* The decoder of one connection.  st: Type (a field starts), Len (first
\* octet of a string length), Cont (continuation octets), Str (string
\* bytes), Block.  part: which string, "name" or "value".  int: the integer
\* being decoded, then the last one decoded.
\* to_read: the bytes of the current frame not yet decoded.
HpackInit ==
    [st |-> "Type", part |-> "name", int |-> 0, mul |-> 1, ncont |-> 0,
     left |-> 0, name |-> <<>>, value |-> <<>>, to_read |-> 0]

\* A decoded string length: it must fit in what is left of the frame.
HpLenDone(hs, len, room) ==
    IF len > room THEN [hs EXCEPT !.st = "Block"]
    ELSE [hs EXCEPT !.st = "Str", !.int = len, !.left = len]

\* One octet outside string bytes.  room: the frame bytes after this octet.
HpOctet(hs, b, room) ==
    CASE hs.st = "Type" ->
            IF b = LIT_HDR_FLD_WO_IND
            THEN [HpackInit EXCEPT !.st = "Len", !.to_read = hs.to_read]
            ELSE [hs EXCEPT !.st = "Block"]
      [] hs.st = "Len" ->
            IF b > 127 THEN [hs EXCEPT !.st = "Block"]
            ELSE IF b < 127 THEN HpLenDone(hs, b, room)
            ELSE [hs EXCEPT !.st = "Cont", !.int = 127, !.mul = 1, !.ncont = 0]
      [] hs.st = "Cont" ->
            LET v == hs.int + (b % 128) * hs.mul
            IN  IF b < 128 THEN HpLenDone(hs, v, room)
                ELSE IF hs.ncont + 1 >= HPACK_INT_MAX_CONT
                THEN [hs EXCEPT !.st = "Block"]
                ELSE [hs EXCEPT !.int = v, !.mul = @ * 128, !.ncont = @ + 1]
      [] OTHER -> hs

\* A decoded header field enters the request.  With sem (a request is being
\* assembled) the pseudo-header "m" is the method and must be one known
\* method, given once; "c" is Content-Length, a number given once; names are
\* tokens and values visible characters.  Without sem the field is only
\* recorded.
H2HdrSem(ps, name, value, num) ==
    IF name = <<>> \/ \E i \in 1..Len(name) : name[i] \notin TOKEN_ALPHABET
    THEN [ps EXCEPT !.st = "Block"]
    ELSE IF \E i \in 1..Len(value) : value[i] \notin VCHAR_ALPHABET
    THEN [ps EXCEPT !.st = "Block"]
    ELSE IF name = NAME_M
    THEN IF Len(value) = 1 /\ value[1] \in METHODS /\ ps.method = 0
         THEN [ps EXCEPT !.hdrs = Append(@, <<name, value>>), !.method = value[1]]
         ELSE [ps EXCEPT !.st = "Block"]
    ELSE IF name = NAME_C
    THEN IF num.r = TFW_BLOCK \/ HasHdr(ps, NAME_C)
         THEN [ps EXCEPT !.st = "Block"]
         ELSE [ps EXCEPT !.hdrs = Append(@, <<name, value>>),
                         !.clen = BigToInt(num.value)]
    ELSE [ps EXCEPT !.hdrs = Append(@, <<name, value>>)]

H2AddHdr(ps, name, value, sem) ==
    IF sem
    THEN H2HdrSem(ps, name, value, NumParse(value, CONTENT_LENGTH_WIDTH))
    ELSE [ps EXCEPT !.hdrs = Append(@, <<name, value>>)]

\* String bytes are taken span by span: k bytes from data[i].
HpSpan(hs, data, i, k) ==
    IF hs.part = "name"
    THEN [hs EXCEPT !.name = @ \o SubSeq(data, i, i + k - 1), !.left = @ - k,
                    !.to_read = @ - k]
    ELSE [hs EXCEPT !.value = @ \o SubSeq(data, i, i + k - 1), !.left = @ - k,
                    !.to_read = @ - k]

RECURSIVE HpRun(_, _, _, _, _)
\* tfw_hpack_decode(): decode data[i..] of the current frame, hs being the
\* state before data[i]; every complete field enters ps.  The frame must end
\* between two fields.
HpRun(hs, ps, data, i, sem) ==
    IF ps.st = "Block"
    THEN [r |-> TFW_BLOCK, parsed |-> i - 1, hs |-> [hs EXCEPT !.st = "Block"], ps |-> ps]
    ELSE IF hs.st = "Block"
    THEN [r |-> TFW_BLOCK, parsed |-> Max(i - 2, 0), hs |-> hs, ps |-> ps]
    ELSE IF hs.st = "Str" /\ hs.left = 0
    THEN IF hs.part = "name"
         THEN HpRun([hs EXCEPT !.st = "Len", !.part = "value"], ps, data, i, sem)
         ELSE HpRun([HpackInit EXCEPT !.to_read = hs.to_read, !.int = hs.int],
                    H2AddHdr(ps, hs.name, hs.value, sem), data, i, sem)
    ELSE IF i > Len(data)
    THEN IF hs.to_read = 0 /\ hs.st # "Type"
         THEN [r |-> TFW_BLOCK, parsed |-> Len(data),
               hs |-> [hs EXCEPT !.st = "Block"], ps |-> ps]
         ELSE [r |-> TFW_POSTPONE, parsed |-> Len(data), hs |-> hs, ps |-> ps]
    ELSE IF hs.st = "Str"
    THEN HpRun(HpSpan(hs, data, i, Min(hs.left, Len(data) - i + 1)), ps, data,
               i + Min(hs.left, Len(data) - i + 1), sem)
    ELSE HpRun(HpOctet([hs EXCEPT !.to_read = @ - 1], data[i], hs.to_read - 1),
               ps, data, i + 1, sem)

-----------------------------------------------------------------------------
(* The HTTP/2 request entry points *)

HTTP2_DATA    == "HTTP2_DATA"
HTTP2_HEADERS == "HTTP2_HEADERS"

HTTP2_STREAM_IDLE            == "HTTP2_STREAM_IDLE"
HTTP2_STREAM_REM_HALF_CLOSED == "HTTP2_STREAM_REM_HALF_CLOSED"

TFW_HTTP_B_H2             == "TFW_HTTP_B_H2"
TFW_HTTP_B_HEADERS_PARSED == "TFW_HTTP_B_HEADERS_PARSED"

\* tfw_h2_context_init(): the connection's HTTP/2 context.
\* The dynamic table of the HPACK decoder: the entries, oldest first, each
\* with the lengths of its name and value (and, for the record, the stream and
\* the message that inserted it); an entry weighs its two lengths plus
\* HPACK_ENTRY_OVERHEAD and the table holds at most HPACK_TABLE_BUDGET.
HPACK_ENTRY_OVERHEAD == 32
HPACK_TABLE_BUDGET   == 4096

HPackTblInit == [entries |-> <<>>, size |-> 0]

HPackEntrySize(e) == e.nlen + e.vlen + HPACK_ENTRY_OVERHEAD

RECURSIVE HPackTblEvict(_, _)
\* Drop the oldest entries until need more bytes fit, or none is left.
HPackTblEvict(t, need) ==
    IF t.entries = <<>> \/ t.size + need <= HPACK_TABLE_BUDGET THEN t
    ELSE HPackTblEvict([entries |-> Tail(t.entries),
                        size    |-> t.size - HPackEntrySize(Head(t.entries))],
                       need)

\* The insertion without eviction.
HPackTblAdd_no_evict(t, e) ==
    [entries |-> Append(t.entries, e), size |-> t.size + HPackEntrySize(e)]

\* A decoded field with incremental indexing enters the table; an entry
\* larger than the whole budget empties it and is not kept.
HPackTblAdd(t, e) ==
    LET u == HPackTblEvict(t, HPackEntrySize(e))
    IN  IF HPackEntrySize(e) > HPACK_TABLE_BUDGET THEN u
        ELSE [entries |-> Append(u.entries, e), size |-> u.size + HPackEntrySize(e)]

\* tfw_h2_context_init(&conn.h2)
H2CtxInit == [hdr_type |-> HTTP2_HEADERS, plen |-> 0, hpack |-> HpackInit,
              dec_tbl |-> HPackTblInit]

\* tfw_h2_parse_req(req, data, len, &parsed): the payload bytes of the frame
\* the context describes.  HEADERS payload goes through the HPACK decoder;
\* DATA payload is body.  A call finding the previous frame complete starts
\* the frame of ctx.plen bytes.  The outcome never depends on the stream's
\* state: the frame layer above answers for that.
H2Out(o, rq, ctx) ==
    [r |-> o.r, parsed |-> o.parsed, msg |-> [rq EXCEPT !.ps = o.ps],
     ctx |-> [ctx EXCEPT !.hpack = o.hs]]

H2FrameCursor(ctx) ==
    IF ctx.hpack.to_read = 0
    THEN [ctx.hpack EXCEPT !.to_read = ctx.plen]
    ELSE ctx.hpack

tfw_h2_parse_req(rq, ctx, data) ==
    IF ctx.hdr_type = HTTP2_HEADERS
    THEN H2Out(HpRun(H2FrameCursor(ctx), rq.ps, data, 1, TRUE), rq, ctx)
    ELSE [r |-> TFW_POSTPONE, parsed |-> Len(data),
          msg |-> [rq EXCEPT !.ps.body = @ + Len(data)],
          ctx |-> [ctx EXCEPT !.hpack = [H2FrameCursor(ctx) EXCEPT
                                            !.to_read = @ - Len(data)]]]

\* tfw_http_parse_check_bodyless_meth(req): nonzero when the method has no
\* body and the request declares one.
tfw_http_parse_check_bodyless_meth(rq) ==
    IF rq.ps.method \in BODYLESS_METHODS /\ HasHdr(rq.ps, NAME_C) THEN 1 ELSE 0

\* tfw_h2_parse_req_finish(req): the request is complete once its mandatory
\* pseudo-header (the method) has been seen.
tfw_h2_parse_req_finish(rq) ==
    IF rq.ps.method # 0
    THEN [r |-> TFW_PASS, msg |-> [rq EXCEPT !.ps.st = "Done"]]
    ELSE [r |-> TFW_BLOCK, msg |-> [rq EXCEPT !.ps.st = "Block"]]

-----------------------------------------------------------------------------
(* The test helper: frames, the frame builder, the chunked feeding loop    *)

CHUNK_SIZES == <<1, 2, 3, 4, 8, 16, 32, 64, 128, 256, 1500, 9216, 1024 * 1024>>
CHUNK_SIZE_CNT == Len(CHUNK_SIZES)

CHUNK_OFF == "CHUNK_OFF"
CHUNK_ON  == "CHUNK_ON"

\* ARRAY_SIZE(frames)
FRAMES_ARRAY_SIZE == 2
\* sizeof(frames_str_buf)
FRAMES_STR_BUF_SIZE == 3 * 1024

frames_cnt == Len(frames)

\* H2_BUILDER_INIT(); H2_BUILDER_SET_BUF(frames_str_buf)
BuilderInit == [buf |-> <<>>, frames |-> <<>>, total_sz |-> 0, max_sz |-> 0]

RECURSIVE EncodeHeaders(_, _)
\* HEADER(name, value) for each header of the block, in order: the buffer
\* and frame_sz, the sum of the sizes tfw_h2_encode_header() returned.
EncodeHeaders(acc, hdrs) ==
    IF hdrs = <<>> THEN acc
    ELSE LET e == tfw_h2_encode_header(acc.buf, Head(hdrs))
         IN  EncodeHeaders([buf |-> e.buf, ret |-> acc.ret + e.ret], Tail(hdrs))

\* HEADERS_FRAME_END() / DATA_FRAME_END(): the frame is the last frame_sz
\* bytes of the buffer.
FrameEnd(b, buf, frame_sz, subtype) ==
    [buf      |-> buf,
     frames   |-> Append(b.frames,
                         [str     |-> SubSeq(buf, Len(buf) - frame_sz + 1, Len(buf)),
                          len     |-> frame_sz,
                          subtype |-> subtype]),
     total_sz |-> b.total_sz + frame_sz,
     max_sz   |-> Max(b.max_sz, frame_sz)]

\* HEADERS_FRAME_BEGIN(); HEADER(..) ...; HEADERS_FRAME_END()
HEADERS_FRAME(b, hdrs) ==
    LET e == EncodeHeaders([buf |-> b.buf, ret |-> 0], hdrs)
    IN  FrameEnd(b, e.buf, e.ret, HTTP2_HEADERS)

\* DATA_FRAME_BEGIN(); DATA(data); DATA_FRAME_END()
DATA_FRAME(b, data) ==
    FrameEnd(b, b.buf \o DataBytes(data), data.size, HTTP2_DATA)

RECURSIVE Build(_, _)
\* The builder block of FOR_REQ_H2 / EXPECT_BLOCK_REQ_H2: a list of frame
\* descriptions [subtype, hdrs] or [subtype, data].
Build(b, prog) ==
    IF prog = <<>> THEN b
    ELSE Build(IF Head(prog).subtype = HTTP2_HEADERS
               THEN HEADERS_FRAME(b, Head(prog).hdrs)
               ELSE DATA_FRAME(b, Head(prog).data),
               Tail(prog))

\* test_case_parse_prepare_http(str, sz_diff)
test_case_parse_prepare_http(str, sz_diff) ==
    LET str_len == strlen(str)
    IN  [chunk_size_index |-> 0,
         frames_max_sz    |-> str_len,
         frames           |-> <<[str |-> str, len |-> str_len, subtype |-> HTTP2_DATA]>>,
         frames_total_sz  |-> str_len,
         hm_exp_len       |-> str_len - sz_diff]

\* test_case_parse_prepare_h2(), after the builder block b
test_case_parse_prepare_h2_idle(b) ==
    [conn |-> [h2 |-> [H2CtxInit EXCEPT !.hdr_type = HTTP2_HEADERS]],
     stream |-> [state |-> HTTP2_STREAM_IDLE],
     chunk_size_index |-> 0,
     hm_exp_len |-> b.total_sz]

test_case_parse_prepare_h2(b) ==
    [conn |-> [h2 |-> [H2CtxInit EXCEPT !.hdr_type = HTTP2_HEADERS]],
     stream |-> [state |-> HTTP2_STREAM_REM_HALF_CLOSED],
     chunk_size_index |-> 0,
     hm_exp_len |-> b.total_sz]

\* The locals of do_split_and_parse (r, chunk_size, frame_index) and of
\* split_and_parse_n (pos, cs, sr), the value do_split_and_parse returned,
\* and a record of the parser calls made for the current message: their
\* number and the last result.
LocInit == [r |-> "UNSET", chunk_size |-> 0, frame_index |-> 0,
            pos |-> 0, cs |-> 0, sr |-> TFW_PASS, ret |-> "UNSET",
            nfeeds |-> 0, last |-> "NONE"]

\* The parser call of split_and_parse_n, by message type.
CallOut(o, rq, rs, ctx) ==
    [r |-> o.r, parsed |-> o.parsed, req |-> rq, resp |-> rs, ctx |-> ctx]

ReqOut(o, rs, ctx)  == CallOut(o, o.msg, rs, ctx)
RespOut(o, rq, ctx) == CallOut(o, rq, o.msg, ctx)
H2ReqOut(o, rs)     == CallOut(o, o.msg, rs, o.ctx)

ParseCall(type, rq, rs, ctx, data) ==
    CASE type = FUZZ_REQ    -> ReqOut(tfw_http_parse_req(rq, data), rs, ctx)
      [] type = FUZZ_REQ_H2 -> H2ReqOut(tfw_h2_parse_req(rq, ctx, data), rs)
      [] OTHER              -> RespOut(tfw_http_parse_resp(rs, data), rq, ctx)

\* The chunk of one pass of the while loop of split_and_parse_n: the last
\* chunk is what is left.
ChunkLen(l, frame) ==
    IF l.cs >= frame.len - l.pos THEN frame.len - l.pos ELSE l.cs

Chunk(l, frame) == SubSeq(frame.str, l.pos + 1, l.pos + ChunkLen(l, frame))

\* One pass of the while loop of split_and_parse_n(str, type, len,
\* chunk_size): l.pos < frame.len holds, o is what the parser call returned.
\* back: the function returns after this pass (r != TFW_POSTPONE, or the loop
\* ends with pos = len).
split_and_parse_n_keep_going(type, frame, l, o) ==
    [l    |-> [l EXCEPT !.cs = ChunkLen(l, frame), !.pos = @ + ChunkLen(l, frame),
                        !.sr = o.r, !.nfeeds = @ + 1, !.last = o.r],
     req  |-> IF type = FUZZ_RESP THEN o.req ELSE [o.req EXCEPT !.len = @ + o.parsed],
     resp |-> IF type = FUZZ_RESP THEN [o.resp EXCEPT !.len = @ + o.parsed] ELSE o.resp,
     ctx  |-> o.ctx,
     back |-> (o.r = TFW_PASS) \/ ~(l.pos + ChunkLen(l, frame) < frame.len)]

split_and_parse_n_len_chunk(type, frame, l, o) ==
    [l    |-> [l EXCEPT !.cs = ChunkLen(l, frame), !.pos = @ + ChunkLen(l, frame),
                        !.sr = o.r, !.nfeeds = @ + 1, !.last = o.r],
     req  |-> IF type = FUZZ_RESP THEN o.req
              ELSE [o.req EXCEPT !.len = @ + ChunkLen(l, frame)],
     resp |-> IF type = FUZZ_RESP THEN [o.resp EXCEPT !.len = @ + ChunkLen(l, frame)]
              ELSE o.resp,
     ctx  |-> o.ctx,
     back |-> (o.r # TFW_POSTPONE) \/ ~(l.pos + ChunkLen(l, frame) < frame.len)]

split_and_parse_n_len_assign(type, frame, l, o) ==
    [l    |-> [l EXCEPT !.cs = ChunkLen(l, frame), !.pos = @ + ChunkLen(l, frame),
                        !.sr = o.r, !.nfeeds = @ + 1, !.last = o.r],
     req  |-> IF type = FUZZ_RESP THEN o.req ELSE [o.req EXCEPT !.len = o.parsed],
     resp |-> IF type = FUZZ_RESP THEN [o.resp EXCEPT !.len = o.parsed] ELSE o.resp,
     ctx  |-> o.ctx,
     back |-> (o.r # TFW_POSTPONE) \/ ~(l.pos + ChunkLen(l, frame) < frame.len)]

\* The pass with the position moved one byte short of the end of the chunk
\* handed over.
split_and_parse_n_overlap(type, frame, l, o) ==
    [l    |-> [l EXCEPT !.cs = ChunkLen(l, frame),
                        !.pos = @ + Max(1, ChunkLen(l, frame) - 1),
                        !.sr = o.r, !.nfeeds = @ + 1, !.last = o.r],
     req  |-> IF type = FUZZ_RESP THEN o.req ELSE [o.req EXCEPT !.len = @ + o.parsed],
     resp |-> IF type = FUZZ_RESP THEN [o.resp EXCEPT !.len = @ + o.parsed] ELSE o.resp,
     ctx  |-> o.ctx,
     back |-> (o.r # TFW_POSTPONE)
              \/ ~(l.pos + Max(1, ChunkLen(l, frame) - 1) < frame.len)]

split_and_parse_n(type, frame, l, o) ==
    [l    |-> [l EXCEPT !.cs = ChunkLen(l, frame), !.pos = @ + ChunkLen(l, frame),
                        !.sr = o.r, !.nfeeds = @ + 1, !.last = o.r],
     req  |-> IF type = FUZZ_RESP THEN o.req ELSE [o.req EXCEPT !.len = @ + o.parsed],
     resp |-> IF type = FUZZ_RESP THEN [o.resp EXCEPT !.len = @ + o.parsed] ELSE o.resp,
     ctx  |-> o.ctx,
     back |-> (o.r # TFW_POSTPONE) \/ ~(l.pos + ChunkLen(l, frame) < frame.len)]

\* do_split_and_parse, lines 378-410, without the call of tfw_http_msg_pair.
AllocStep_unpaired(type, chunk_mode, rq, rs, cn, sreq, fmax, csi) ==
    [req  |-> CASE type = FUZZ_REQ    -> MsgAlloc
                [] type = FUZZ_REQ_H2 -> [MsgAlloc EXCEPT !.flags = {TFW_HTTP_B_H2}]
                [] OTHER              -> rq,
     resp |-> IF type = FUZZ_RESP THEN MsgAlloc ELSE rs,
     conn |-> IF type = FUZZ_REQ_H2
              THEN [cn EXCEPT !.h2.hpack = HpackInit]
              ELSE cn,
     chunk_size |-> IF chunk_mode = CHUNK_OFF THEN fmax ELSE CHUNK_SIZES[csi + 1]]

\* do_split_and_parse, lines 378-410, with the HTTP/2 context initialised
\* anew for every message.
AllocStep_ctx_reinit(type, chunk_mode, rq, rs, cn, sreq, fmax, csi) ==
    [req  |-> CASE type = FUZZ_REQ    -> MsgAlloc
                [] type = FUZZ_REQ_H2 -> [MsgAlloc EXCEPT !.flags = {TFW_HTTP_B_H2}]
                [] OTHER              -> rq,
     resp |-> IF type = FUZZ_RESP
              THEN [MsgAlloc EXCEPT !.pair = PairOf(sreq)]
              ELSE rs,
     conn |-> IF type = FUZZ_REQ_H2
              THEN [cn EXCEPT !.h2 = H2CtxInit]
              ELSE cn,
     chunk_size |-> IF chunk_mode = CHUNK_OFF THEN fmax ELSE CHUNK_SIZES[csi + 1]]

\* do_split_and_parse, lines 378-410: the message of this call is freshly
\* allocated; the chunk size is chosen.
AllocStep(type, chunk_mode, rq, rs, cn, sreq, fmax, csi) ==
    [req  |-> CASE type = FUZZ_REQ    -> MsgAlloc
                [] type = FUZZ_REQ_H2 -> [MsgAlloc EXCEPT !.flags = {TFW_HTTP_B_H2}]
                [] OTHER              -> rq,
     resp |-> IF type = FUZZ_RESP
              THEN [MsgAlloc EXCEPT !.pair = PairOf(sreq)]
              ELSE rs,
     conn |-> IF type = FUZZ_REQ_H2
              THEN [cn EXCEPT !.h2.hpack = HpackInit]
              ELSE cn,
     chunk_size |-> IF chunk_mode = CHUNK_OFF THEN fmax ELSE CHUNK_SIZES[csi + 1]]

\* The head of the frame loop, lines 417-434, up to the call of
\* split_and_parse_n.  next: where the loop goes.
FrameStep_feeds_empty_data(type, frame, l, ctx) ==
    LET ctx1 == IF type = FUZZ_REQ_H2
                THEN [ctx EXCEPT !.hdr_type = frame.subtype, !.plen = frame.len]
                ELSE ctx
        l1   == [l EXCEPT !.pos = 0, !.cs = l.chunk_size, !.sr = TFW_PASS]
    IN  IF 0 < frame.len
        THEN [l |-> l1, ctx |-> ctx1, next |-> "feed"]
        ELSE [l |-> [l1 EXCEPT !.r = l1.sr], ctx |-> ctx1, next |-> "after"]

FrameStep(type, frame, l, ctx) ==
    LET ctx1 == IF type = FUZZ_REQ_H2
                THEN [ctx EXCEPT !.hdr_type = frame.subtype, !.plen = frame.len]
                ELSE ctx
        l1   == [l EXCEPT !.pos = 0, !.cs = l.chunk_size, !.sr = TFW_PASS]
    IN  IF type = FUZZ_REQ_H2 /\ frame.subtype = HTTP2_DATA /\ frame.len = 0
        THEN [l |-> [l EXCEPT !.r = TFW_POSTPONE], ctx |-> ctx1, next |-> "after"]
        ELSE IF 0 < frame.len
        THEN [l |-> l1, ctx |-> ctx1, next |-> "feed"]
        ELSE [l |-> [l1 EXCEPT !.r = l1.sr], ctx |-> ctx1, next |-> "after"]

\* The tail of the frame loop, lines 436-448.
AfterFrameStep_flag_first(type, frame, l, rq) ==
    IF l.r # TFW_POSTPONE
    THEN [l |-> l, req |-> rq, next |-> "finish"]
    ELSE IF type = FUZZ_REQ_H2 /\ frame.subtype = HTTP2_HEADERS
    THEN LET rq1 == [rq EXCEPT !.flags = @ \cup {TFW_HTTP_B_HEADERS_PARSED}]
         IN  IF tfw_http_parse_check_bodyless_meth(rq) = 0
             THEN [l |-> [l EXCEPT !.frame_index = @ + 1], req |-> rq1, next |-> "frame"]
             ELSE [l |-> [l EXCEPT !.r = TFW_BLOCK], req |-> rq1, next |-> "finish"]
    ELSE [l |-> [l EXCEPT !.frame_index = @ + 1], req |-> rq, next |-> "frame"]

AfterFrameStep(type, frame, l, rq) ==
    IF l.r # TFW_POSTPONE
    THEN [l |-> l, req |-> rq, next |-> "finish"]
    ELSE IF type = FUZZ_REQ_H2 /\ frame.subtype = HTTP2_HEADERS
    THEN IF tfw_http_parse_check_bodyless_meth(rq) = 0
         THEN [l   |-> [l EXCEPT !.frame_index = @ + 1],
               req |-> [rq EXCEPT !.flags = @ \cup {TFW_HTTP_B_HEADERS_PARSED}],
               next |-> "frame"]
         ELSE [l |-> [l EXCEPT !.r = TFW_BLOCK], req |-> rq, next |-> "finish"]
    ELSE [l |-> [l EXCEPT !.frame_index = @ + 1], req |-> rq, next |-> "frame"]

\* After the frame loop, lines 451-465, with the next chunk size taken
\* whatever the size just tried.
FinishOut_always_next(chunk_mode, l, fin, fmax, csi) ==
    [l   |-> [l EXCEPT !.r = fin.r, !.ret = fin.r],
     req |-> fin.msg,
     chunk_size_index |->
         IF chunk_mode = CHUNK_OFF THEN CHUNK_SIZE_CNT ELSE csi + 1]

\* After the frame loop, lines 451-465.
FinishOut(chunk_mode, l, fin, fmax, csi) ==
    [l   |-> [l EXCEPT !.r = fin.r, !.ret = fin.r],
     req |-> fin.msg,
     chunk_size_index |->
         IF chunk_mode = CHUNK_OFF \/ CHUNK_SIZES[csi + 1] >= fmax
         THEN CHUNK_SIZE_CNT
         ELSE csi + 1]

FinishStep(type, chunk_mode, l, rq, fmax, csi) ==
    FinishOut(chunk_mode, l,
              IF type = FUZZ_REQ_H2 /\ l.r = TFW_POSTPONE
              THEN tfw_h2_parse_req_finish(rq)
              ELSE [r |-> l.r, msg |-> rq],
              fmax, csi)

\* TRY_PARSE_EXPECT_PASS / TRY_PARSE_EXPECT_BLOCK on the value _err that
\* do_split_and_parse returned: whether the while loop goes on, and whether
\* TEST_FAIL is reported.
validate_data_fully_parsed(type, rq, rs, exp_len) ==
    IF type = FUZZ_RESP THEN rs.len = exp_len ELSE rq.len = exp_len

TRY_PARSE(macro, err, fully) ==
    IF macro = TFW_PASS
    THEN [again |-> err = TFW_PASS,
          fail  |-> err = TFW_BLOCK \/ err = TFW_POSTPONE \/ ~fully]
    ELSE [again |-> err = TFW_BLOCK \/ err = TFW_POSTPONE,
          fail  |-> err = TFW_PASS]

-----------------------------------------------------------------------------
(* The test cases the harness is driven with *)

MaxHdrs  == 1      \* header lines of an HTTP/1.x message
MaxExtra == 1      \* bytes following a complete HTTP/1.x message
MaxData  == 1      \* bytes of an HTTP/2 DATA frame

\* A header line and the body length it declares.
HdrChoices ==
    {[line |-> Str("c:0\n"), clen |-> 0, isc |-> TRUE],
     [line |-> Str("c:2\n"), clen |-> 2, isc |-> TRUE],
     [line |-> Str("x:a\n"), clen |-> 0, isc |-> FALSE]}

\* Header blocks with at most one Content-Length.
HdrLists ==
    {hl \in SeqsUpTo(HdrChoices, MaxHdrs) :
        Cardinality({i \in 1..Len(hl) : hl[i].isc}) <= 1}

BodyLen(hl) == SeqSum([i \in 1..Len(hl) |-> hl[i].clen])

\* The complete messages of the grammar: first line, header block, empty
\* line, body.  nobody: a response to HEAD.
HttpMsgs(firsts, nobody) ==
    {<<f, LF>> \o Flatten([i \in 1..Len(hl) |-> hl[i].line]) \o <<LF>>
        \o [i \in 1..(IF nobody THEN 0 ELSE BodyLen(hl)) |-> Ord("b")]
     : f \in firsts, hl \in HdrLists}

Extras == SeqsUpTo({Ord("G"), 1}, MaxExtra)

\* The strings and sz_diff of the HTTP/1.x cases: a complete message followed
\* by sz_diff more bytes; a message cut short; a message with one byte
\* replaced by a control byte.
HttpInputs(firsts, nobody) ==
    LET M == HttpMsgs(firsts, nobody)
    IN  {[str |-> m \o x, sz_diff |-> Len(x)] : m \in M, x \in Extras}
        \cup UNION {{[str |-> SubSeq(m, 1, k), sz_diff |-> 0] : k \in 0..(Len(m) - 1)}
                    : m \in M}
        \cup UNION {{[str |-> [m EXCEPT ![k] = 1], sz_diff |-> 0] : k \in 1..Len(m)}
                    : m \in M}

ReqInputs      == HttpInputs(METHODS, FALSE)
RespInputs(nb) == HttpInputs({Ord("2")}, nb)

SampleReqs == {Str("G\n\n"), Str("H\n\n"), Str("G\n")}

\* The headers and frames of the HTTP/2 builder blocks.
H2HdrChoices ==
    {[name |-> STR(Str("m")), value |-> STR(Str("G"))],
     [name |-> STR(Str("m")), value |-> STR(Str("P"))],
     [name |-> STR(Str("c")), value |-> STR(Str("2"))],
     [name |-> STR(Str("x")), value |-> STR(Str("a"))]}

H2FrameSpecs ==
    {[subtype |-> HTTP2_HEADERS, hdrs |-> hl, data |-> STR(<<>>)]
        : hl \in SeqsUpTo(H2HdrChoices, 2) \ {<<>>}}
    \cup {[subtype |-> HTTP2_DATA, hdrs |-> <<>>,
           data |-> STR([i \in 1..k |-> Ord("b")])] : k \in 0..MaxData}

\* A second frame is a DATA frame or a HEADERS frame of one header.
H2Progs ==
    {<<f>> : f \in H2FrameSpecs}
    \cup {<<f, g>> : f \in H2FrameSpecs,
                     g \in {x \in H2FrameSpecs : Len(x.hdrs) <= 1}}

-----------------------------------------------------------------------------
(* sock_clnt.c: the statics *)

LISTEN_SOCKS_MAX == 8

NULL == 0

\* A zeroed SsProto.
ProtoZero == [type |-> "0", hooks |-> "0"]

\* No call of a function of sock_clnt.c yet.  A call leaves: its name and
\* return value; the socket it created; the sockets it released and those it
\* called listen on, in order; whether a BUG_ON fired; the calls it made, in
\* order (connection hooks), the client socket it was made for and what the
\* classifier said; whether it faulted on a wild pointer.
CallNone == [fn |-> "none", r |-> 0, created |-> NULL, released |-> <<>>,
             listened |-> <<>>, bug |-> FALSE, oops |-> FALSE, sock |-> NULL,
             log |-> <<>>, sk |-> 0, verdict |-> "none"]

\* listen_socks[], listen_socks_n and protos[] are zero-initialised statics;
\* no kernel socket is in use and no client socket has been accepted.
SockInit ==
    /\ listen_socks = [i \in 0..(LISTEN_SOCKS_MAX - 1) |-> NULL]
    /\ listen_socks_n = 0
    /\ protos = [i \in 0..(LISTEN_SOCKS_MAX - 1) |-> ProtoZero]
    /\ socks = [s \in 1..(LISTEN_SOCKS_MAX + 1) |-> "free"]
    /\ call = CallNone
    /\ estab = <<>>

StrIdle   == [pc |-> "off"]
TblIdle   == [pc |-> "off"]
PeersIdle == [pc |-> "off"]

IterIdle  == [pc |-> "off"]
SplitIdle == [pc |-> "off"]
RunIdle   == iter = IterIdle /\ split = SplitIdle

ExtIdle ==
    hstr = StrIdle /\ tbl = TblIdle /\ peers = PeersIdle /\ SockInit /\ RunIdle

-----------------------------------------------------------------------------
(* The harness as a state machine *)

\* tcase: the test macro in progress, its arguments (prog: the builder block
\* of an HTTP/2 case), the length of the message the buffer starts with, and
\* whether TEST_FAIL was reported.
NoCase == [type |-> "NONE", chunk_mode |-> CHUNK_ON, macro |-> TFW_PASS,
           prog |-> <<>>, own_len |-> 0, fail |-> FALSE]

HarnessInit ==
    /\ pc = "idle"
    /\ tcase = NoCase
    /\ frames = <<>>
    /\ frames_max_sz = 0
    /\ frames_total_sz = 0
    /\ hm_exp_len = 0
    /\ chunk_size_index = 0
    /\ req = NullMsg
    /\ resp = NullMsg
    /\ sample_req = NullMsg
    /\ conn = [h2 |-> [H2CtxInit EXCEPT !.hdr_type = HTTP2_DATA]]
    /\ stream = [state |-> HTTP2_STREAM_IDLE]
    /\ loc = LocInit
    /\ hist = <<>>

\* set_sample_req(str)
set_sample_req ==
    /\ pc = "idle"
    /\ \E str \in SampleReqs :
         sample_req' = tfw_http_parse_req(MsgAlloc, CStr(str)).msg
    /\ UNCHANGED <<pc, tcase, frames, frames_max_sz, frames_total_sz, hm_exp_len,
                   chunk_size_index, req, resp, conn, stream, loc, hist>>
    /\ UNCHANGED <<hp, val, extVars>>

\* __FOR_REQ / __EXPECT_BLOCK_REQ / __FOR_RESP / EXPECT_BLOCK_RESP with an
\* HTTP/1.x string: test_case_parse_prepare_http(), then the while loop.
\* The EXPECT_BLOCK macros pass 0 for sz_diff.
HttpCase ==
    /\ pc = "idle"
    /\ \E type \in {FUZZ_REQ, FUZZ_RESP}, macro \in {TFW_PASS, TFW_BLOCK} :
       \E inp \in (IF type = FUZZ_REQ THEN ReqInputs
                   ELSE RespInputs(PairOf(sample_req).method = METH_H)) :
         LET p == test_case_parse_prepare_http(
                      inp.str, IF macro = TFW_PASS THEN inp.sz_diff ELSE 0)
         IN  /\ tcase' = [type |-> type, chunk_mode |-> CHUNK_ON, macro |-> macro,
                          prog |-> <<>>, own_len |-> strlen(inp.str) - inp.sz_diff,
                          fail |-> FALSE]
             /\ chunk_size_index' = p.chunk_size_index
             /\ frames_max_sz' = p.frames_max_sz
             /\ frames' = p.frames
             /\ frames_total_sz' = p.frames_total_sz
             /\ hm_exp_len' = p.hm_exp_len
    /\ pc' = "call"
    /\ hist' = <<>>
    /\ UNCHANGED <<req, resp, sample_req, conn, stream, loc>>
    /\ UNCHANGED <<hp, val, extVars>>

\* FOR_REQ_H2 / EXPECT_BLOCK_REQ_H2 (and their CHUNK_OFF forms, after a
\* builder block): the builder, test_case_parse_prepare_h2(), then the loop.
H2Case ==
    /\ pc = "idle"
    /\ \E prog \in H2Progs, macro \in {TFW_PASS, TFW_BLOCK},
          mode \in {CHUNK_ON, CHUNK_OFF} :
         LET b == Build(BuilderInit, prog)
             p == test_case_parse_prepare_h2(b)
         IN  /\ Len(prog) <= FRAMES_ARRAY_SIZE
             /\ Len(b.buf) <= FRAMES_STR_BUF_SIZE
             /\ tcase' = [type |-> FUZZ_REQ_H2, chunk_mode |-> mode, macro |-> macro,
                          prog |-> prog, own_len |-> b.total_sz, fail |-> FALSE]
             /\ frames' = b.frames
             /\ frames_total_sz' = b.total_sz
             /\ frames_max_sz' = b.max_sz
             /\ conn' = p.conn
             /\ stream' = p.stream
             /\ chunk_size_index' = p.chunk_size_index
             /\ hm_exp_len' = p.hm_exp_len
    /\ pc' = "call"
    /\ hist' = <<>>
    /\ UNCHANGED <<req, resp, sample_req, loc>>
    /\ UNCHANGED <<hp, val, extVars>>

\* do_split_and_parse(type, chunk_mode), entry: EOF once every chunk size
\* was tried, else the message is allocated and the frame loop starts.
do_split_and_parse ==
    /\ pc = "call"
    /\ IF chunk_size_index = CHUNK_SIZE_CNT
       THEN /\ loc' = [loc EXCEPT !.ret = "EOF"]
            /\ pc' = "ret"
            /\ UNCHANGED <<req, resp, conn>>
       ELSE LET a == AllocStep(tcase.type, tcase.chunk_mode, req, resp, conn,
                               sample_req, frames_max_sz, chunk_size_index)
            IN  /\ req' = a.req
                /\ resp' = a.resp
                /\ conn' = a.conn
                /\ loc' = [LocInit EXCEPT !.chunk_size = a.chunk_size]
                /\ pc' = "frame"
    /\ UNCHANGED <<tcase, frames, frames_max_sz, frames_total_sz, hm_exp_len,
                   chunk_size_index, sample_req, stream, hist>>
    /\ UNCHANGED <<hp, val, extVars>>

FrameTo(f) ==
    /\ loc' = f.l
    /\ conn' = [conn EXCEPT !.h2 = f.ctx]
    /\ pc' = f.next

\* The for loop over the frames: its condition and the head of its body.
frame_loop ==
    /\ pc = "frame"
    /\ IF loc.frame_index < frames_cnt
       THEN FrameTo(FrameStep(tcase.type, frames[loc.frame_index + 1], loc, conn.h2))
       ELSE /\ pc' = "finish"
            /\ UNCHANGED <<loc, conn>>
    /\ UNCHANGED <<tcase, frames, frames_max_sz, frames_total_sz, hm_exp_len,
                   chunk_size_index, req, resp, sample_req, stream, hist>>
    /\ UNCHANGED <<hp, val, extVars>>

FeedTo(o) ==
    /\ req' = o.req
    /\ resp' = o.resp
    /\ conn' = [conn EXCEPT !.h2 = o.ctx]
    /\ loc' = IF o.back THEN [o.l EXCEPT !.r = o.l.sr] ELSE o.l
    /\ pc' = IF o.back THEN "after" ELSE "feed"

\* One chunk is handed to the parser.
feed_chunk ==
    /\ pc = "feed"
    /\ FeedTo(split_and_parse_n(
                   tcase.type, frames[loc.frame_index + 1], loc,
                   ParseCall(tcase.type, req, resp, conn.h2,
                             Chunk(loc, frames[loc.frame_index + 1]))))
    /\ UNCHANGED <<tcase, frames, frames_max_sz, frames_total_sz, hm_exp_len,
                   chunk_size_index, sample_req, stream, hist>>
    /\ UNCHANGED <<hp, val, extVars>>

AfterTo(a) ==
    /\ loc' = a.l
    /\ req' = a.req
    /\ pc' = a.next

\* The tail of the loop body: break, or the bodyless-method check after a
\* HEADERS frame, then the next frame.
after_frame ==
    /\ pc = "after"
    /\ AfterTo(AfterFrameStep(tcase.type, frames[loc.frame_index + 1], loc, req))
    /\ UNCHANGED <<tcase, frames, frames_max_sz, frames_total_sz, hm_exp_len,
                   chunk_size_index, resp, sample_req, conn, stream, hist>>
    /\ UNCHANGED <<hp, val, extVars>>

FinishTo(f) ==
    /\ loc' = f.l
    /\ req' = f.req
    /\ chunk_size_index' = f.chunk_size_index
    /\ hist' = Append(hist, [chunk_size |-> loc.chunk_size, r |-> f.l.r,
                             msg |-> IF tcase.type = FUZZ_RESP THEN resp ELSE f.req])

\* The end of do_split_and_parse: the HTTP/2 request is finished, the next
\* chunk size is chosen, r is returned.
finish_parse ==
    /\ pc = "finish"
    /\ FinishTo(FinishStep(tcase.type, tcase.chunk_mode, loc, req, frames_max_sz,
                           chunk_size_index))
    /\ pc' = "ret"
    /\ UNCHANGED <<tcase, frames, frames_max_sz, frames_total_sz, hm_exp_len,
                   resp, sample_req, conn, stream>>
    /\ UNCHANGED <<hp, val, extVars>>

\* The while loop of the test macro on the value returned.
try_parse ==
    /\ pc = "ret"
    /\ LET t == TRY_PARSE(tcase.macro, loc.ret,
                          validate_data_fully_parsed(tcase.type, req, resp, hm_exp_len))
       IN  /\ tcase' = [tcase EXCEPT !.fail = @ \/ t.fail]
           /\ pc' = IF t.again THEN "call" ELSE "end"
    /\ UNCHANGED <<frames, frames_max_sz, frames_total_sz, hm_exp_len,
                   chunk_size_index, req, resp, sample_req, conn, stream, loc, hist>>
    /\ UNCHANGED <<hp, val, extVars>>

HpIdle  == [pc |-> "off"]
ValIdle == [pc |-> "off"]

Init == HarnessInit /\ hp = HpIdle /\ val = ValIdle /\ ExtIdle

Next ==
    \/ set_sample_req
    \/ HttpCase
    \/ H2Case
    \/ do_split_and_parse
    \/ frame_loop
    \/ feed_chunk
    \/ after_frame
    \/ finish_parse
    \/ try_parse

Spec == Init /\ [][Next]_vars

-----------------------------------------------------------------------------
(* The literal-header builder against the HPACK decoder *)

MaxSplit   == 2     \* the longest chunk of a split
SplitZone  == 4     \* the leading bytes of a buffer that are split
MaxIntVal  == 140   \* string lengths 0..MaxIntVal are all encoded

\* The capacity a test gives the builder with H2_BUILDER_SET_BUF(buf).
H2_BUILDER_BUF_SIZE == 17 * 1024

HP_NAMES       == {Str("n"), Str("etag")}
HP_VALUE_LENS  == {0, 1, 127, 128, 16384}
HP_INT_VALUES  == (0..MaxIntVal) \cup {254, 255, 256, 16383, 16384, 16510, 16511}

\* The string of n bytes the cases use: every byte value but 0 occurs.
HpValue == [n \in HP_VALUE_LENS \cup HP_INT_VALUES |->
               [i \in 1..n |-> 1 + ((i * 37) % 255)]]

\* What the decoder is given: the buffer built, in chunks.
HpStart(kind, name, value, e, hs) ==
    [pc |-> "feed", kind |-> kind, name |-> name, value |-> value,
     buf |-> e.buf, ret |-> e.ret, pos |-> 0, nfeeds |-> 0, r |-> "NONE",
     hs |-> [hs EXCEPT !.to_read = Len(e.buf)], ps |-> ParserInit]

\* HEADER(RAW(name), RAW(value)) on an empty builder buffer.
HpEncodeHeader ==
    /\ hp.pc = "idle"
    /\ \E nm \in HP_NAMES, n \in HP_VALUE_LENS :
         /\ 1 + 2 + Len(nm) + 3 + n <= H2_BUILDER_BUF_SIZE
         /\ hp' = HpStart("header", nm, HpValue[n],
                          tfw_h2_encode_header(<<>>, [name |-> RAW(nm),
                                                      value |-> RAW(HpValue[n])]),
                          HpackInit)
    /\ UNCHANGED <<harnessVars, val, extVars>>

\* tfw_h2_encode_data(RAW(value)) alone: a length-prefixed string, which the
\* decoder takes as the value of a field whose name is already read.
HpEncodeData ==
    /\ hp.pc = "idle"
    /\ \E n \in HP_INT_VALUES :
         /\ 3 + n <= H2_BUILDER_BUF_SIZE
         /\ hp' = HpStart("data", <<>>, HpValue[n],
                          tfw_h2_encode_data(<<>>, RAW(HpValue[n])),
                          [HpackInit EXCEPT !.st = "Len", !.part = "value"])
    /\ UNCHANGED <<harnessVars, val, extVars>>

HpFed(k, o) ==
    hp' = [hp EXCEPT !.pos = @ + k, !.nfeeds = @ + 1, !.r = o.r,
                     !.hs = o.hs, !.ps = o.ps,
                     !.pc = IF o.r = TFW_BLOCK \/ hp.pos + k = Len(hp.buf)
                            THEN "done" ELSE "feed"]

\* The next chunk goes to the decoder: any length up to MaxSplit within the
\* first SplitZone bytes, or all that is left.
HpFeed ==
    /\ hp.pc = "feed"
    /\ \E k \in 1..(Len(hp.buf) - hp.pos) :
         /\ \/ k = Len(hp.buf) - hp.pos
            \/ k <= MaxSplit /\ hp.pos < SplitZone
         /\ HpFed(k, HpRun(hp.hs, hp.ps, SubSeq(hp.buf, hp.pos + 1, hp.pos + k),
                           1, FALSE))
    /\ UNCHANGED <<harnessVars, val, extVars>>

\* The buffer is released for the next case.
HpRelease ==
    /\ hp.pc = "done"
    /\ hp' = [pc |-> "idle"]
    /\ UNCHANGED <<harnessVars, val, extVars>>

InitHpack == HarnessInit /\ hp = [pc |-> "idle"] /\ val = ValIdle /\ ExtIdle

NextHpack ==
    \/ HpEncodeHeader
    \/ HpEncodeData
    \/ HpFeed
    \/ HpRelease

SpecHpack == InitHpack /\ [][NextHpack]_vars

-----------------------------------------------------------------------------
(* The values the numeric header cases are blocked with *)

\* EXPECT_BLOCK_DIGITS(head, tail, BLOCK_MACRO): the values between head and
\* tail, for fields of 32 bits or less.
EXPECT_BLOCK_DIGITS ==
    {Str(""), Str("  "), Str("5a"), Str("\""), Str("="), Str("-1"), Str("0.99"),
     Str("dummy"), Str("4294967296"), Str("9223372036854775807"),
     Str("9223372036854775808"), Str("18446744073709551615"),
     Str("18446744073709551616")}

\* EXPECT_BLOCK_SHORT(head, tail, BLOCK_MACRO): for fields of 16 bits.
EXPECT_BLOCK_SHORT_with_limit ==
    {Str("65535"), Str("2147483647"), Str("2147483648"), Str("4294967295")}

EXPECT_BLOCK_SHORT ==
    {Str("65536"), Str("2147483647"), Str("2147483648"), Str("4294967295")}

MaxNumLen == 3      \* every string over NUM_BYTES up to this length is tried

NUM_BYTES == Chars("069a ")

NUM_INPUTS ==
    EXPECT_BLOCK_DIGITS \cup EXPECT_BLOCK_SHORT
    \cup {Str("0"), Str("65535"), Str("65536"), Str("0065535"), Str("4294967295"),
          Str("4294967296"), Str("9223372036854775807"), Str("9223372036854775808"),
          Str("18446744073709551615"), Str("18446744073709551616"),
          Str("99999999999999999999"), Str("100000000000000000000"), Str("6553a")}
    \cup SeqsUpTo(NUM_BYTES, MaxNumLen)

\* A numeric header value reaches the field parser of the given width.
NumStart ==
    /\ val.pc = "idle"
    /\ \E w \in NUM_WIDTHS, d \in NUM_INPUTS :
         val' = [pc |-> "num", width |-> w, data |-> d, pos |-> 0, ns |-> NumInit,
                 out |-> [r |-> TFW_POSTPONE, value |-> <<>>]]
    /\ UNCHANGED <<harnessVars, hp, extVars>>

\* The next byte of the value.
NumFeed ==
    /\ val.pc = "num"
    /\ val.pos < Len(val.data)
    /\ val' = [val EXCEPT !.pos = @ + 1,
                          !.ns = NumStep(@, val.data[val.pos + 1], val.width)]
    /\ UNCHANGED <<harnessVars, hp, extVars>>

\* The end of the value (the line end that follows it).
NumEnd ==
    /\ val.pc = "num"
    /\ val.pos = Len(val.data)
    /\ val' = [val EXCEPT !.pc = "num_done", !.out = NumFinish(val.ns)]
    /\ UNCHANGED <<harnessVars, hp, extVars>>

InitNum == HarnessInit /\ hp = HpIdle /\ val = [pc |-> "idle"] /\ ExtIdle

NextNum ==
    \/ NumStart
    \/ NumFeed
    \/ NumEnd

SpecNum == InitNum /\ [][NextNum]_vars

-----------------------------------------------------------------------------
(* The ETag / If-None-Match value *)

DQUOTE == Ord("\"")
ETAG_W == Ord("W")
SLASH  == Ord("/")

\* entity-tag = [ "W/" ] DQUOTE 1*etagc DQUOTE, a byte at a time.  st: Start,
\* Weak (after W), Open (the quote is due), Empty (after the opening quote),
\* Body (after an etagc), Closed, Block.
EtagStep(st, b) ==
    CASE st = "Start" -> IF b = DQUOTE THEN "Empty"
                         ELSE IF b = ETAG_W THEN "Weak" ELSE "Block"
      [] st = "Weak"  -> IF b = SLASH THEN "Open" ELSE "Block"
      [] st = "Open"  -> IF b = DQUOTE THEN "Empty" ELSE "Block"
      [] st = "Empty" -> IF b \in ETAG_ALPHABET THEN "Body" ELSE "Block"
      [] st = "Body"  -> IF b = DQUOTE THEN "Closed"
                         ELSE IF b \in ETAG_ALPHABET THEN "Body" ELSE "Block"
      [] OTHER        -> "Block"

EtagFinish(st) == IF st = "Closed" THEN TFW_PASS ELSE TFW_BLOCK

\* COMMON_ETAG_BLOCK(head, BLOCK_MACRO): the values after head, as written.
COMMON_ETAG_BLOCK ==
    {Str("\"dummy"), Str("dummy\""), Str("'dummy'"), Str("W/ \"dummy\""),
     Str("w/\"dummy\""), <<DQUOTE, 0, DQUOTE>>, <<DQUOTE, 15, DQUOTE>>,
     <<DQUOTE, 127, DQUOTE>>, Str("\" \""), Str("\"\"\"")}

MaxEtagLen == 4     \* every string over ETAG_BYTES up to this length is tried

ETAG_BYTES == {DQUOTE, ETAG_W, SLASH, Ord("w"), Ord(" "), Ord("d"), 127}

ETAG_INPUTS ==
    COMMON_ETAG_BLOCK
    \cup {Str("\"dummy\""), Str("W/\"dummy\""), Str("\"\""), Str("W/\"\""),
          <<DQUOTE, 128, 255, DQUOTE>>, <<DQUOTE, 9, DQUOTE>>}
    \cup SeqsUpTo(ETAG_BYTES, MaxEtagLen)

\* A value reaches the validator: as written (raw), or as the C string the
\* test macros measure with strlen().
EtagStart ==
    /\ val.pc = "idle"
    /\ \E d \in ETAG_INPUTS, raw \in BOOLEAN :
         val' = [pc |-> "etag", written |-> d, data |-> IF raw THEN d ELSE CStr(d),
                 pos |-> 0, st |-> "Start", out |-> TFW_POSTPONE]
    /\ UNCHANGED <<harnessVars, hp, extVars>>

EtagFeed ==
    /\ val.pc = "etag"
    /\ val.pos < Len(val.data)
    /\ val' = [val EXCEPT !.pos = @ + 1, !.st = EtagStep(@, val.data[val.pos + 1])]
    /\ UNCHANGED <<harnessVars, hp, extVars>>

EtagEnd ==
    /\ val.pc = "etag"
    /\ val.pos = Len(val.data)
    /\ val' = [val EXCEPT !.pc = "etag_done", !.out = EtagFinish(val.st)]
    /\ UNCHANGED <<harnessVars, hp, extVars>>

InitEtag == HarnessInit /\ hp = HpIdle /\ val = [pc |-> "idle"] /\ ExtIdle

NextEtag ==
    \/ EtagStart
    \/ EtagFeed
    \/ EtagEnd

SpecEtag == InitEtag /\ [][NextEtag]_vars

-----------------------------------------------------------------------------
(* A parsed multi-value header and get_next_str_val() *)

TFW_STR_VALUE == "TFW_STR_VALUE"

COMMA == Ord(",")
SP    == Ord(" ")

\* A TfwStr is its sequence of chunks [data, flags]; the empty TfwStr is <<>>.
\* The header "x:" value as the parser leaves it: the name with its colon,
\* the values and the separators (commas, blanks) are chunks of their own,
\* and a chunk also ends wherever the input was cut (cuts: the positions
\* after which a new input buffer began).  Only bytes of a value carry
\* TFW_STR_VALUE.
HdrBytes(value) == <<Ord("x"), COLON>> \o value

ByteClass(bytes, i) ==
    IF i <= 2 THEN "name"
    ELSE IF bytes[i] \in {COMMA, SP} THEN "sep" ELSE "value"

RECURSIVE HdrChunks(_, _, _, _)
HdrChunks(bytes, cuts, i, acc) ==
    IF i > Len(bytes) THEN acc
    ELSE LET cl    == ByteClass(bytes, i)
             fresh == \/ i = 1
                      \/ (i - 1) \in cuts
                      \/ ByteClass(bytes, i - 1) # cl
             c     == [data  |-> <<bytes[i]>>,
                       flags |-> IF cl = "value" THEN {TFW_STR_VALUE} ELSE {}]
         IN  HdrChunks(bytes, cuts, i + 1,
                 IF fresh THEN Append(acc, c)
                 ELSE [acc EXCEPT ![Len(acc)].data = Append(@, bytes[i])])

RECURSIVE StrSkip(_, _, _)
\* The first chunk at or after i whose TFW_STR_VALUE flag is not isval
\* (Len(str) + 1 when there is none).
StrSkip(str, i, isval) ==
    IF i > Len(str) \/ ((TFW_STR_VALUE \in str[i].flags) # isval) THEN i
    ELSE StrSkip(str, i + 1, isval)

\* tfw_str_next_str_val(str): skip the value str starts with, then the
\* chunks that are no value; the result starts at the next value and runs to
\* the end of the header, or is empty.
tfw_str_next_str_val(str) ==
    LET b == StrSkip(str, StrSkip(str, 1, TRUE), FALSE)
    IN  IF b > Len(str) THEN <<>> ELSE SubSeq(str, b, Len(str))

\* get_next_str_val(str) with every chunk of the rest counted as the value.
get_next_str_val_whole_rest(str) ==
    LET n == tfw_str_next_str_val(str)
    IN  [str |-> n, v |-> n]

\* get_next_str_val(str): *str becomes the rest of the header from the next
\* value on; the value returned is that rest cut to its leading chunks that
\* carry TFW_STR_VALUE.
get_next_str_val(str) ==
    LET n == tfw_str_next_str_val(str)
    IN  [str |-> n, v |-> SubSeq(n, 1, StrSkip(n, 1, TRUE) - 1)]

MaxValLen == 3      \* every value over STR_BYTES up to this length is tried
MaxCuts   == 2      \* input cuts inside one header

STR_BYTES == {Ord("a"), COMMA, SP}

STR_VALUES ==
    {Str("a, b,c"), Str("ab, cd"), Str("a ,b"), Str("abc")}
    \cup SeqsUpTo(STR_BYTES, MaxValLen)

\* A header arrives, cut anywhere, and is parsed; the iteration starts at
\* the whole header.
StrParse ==
    /\ hstr.pc = "idle"
    /\ \E value \in STR_VALUES :
       \E cuts \in SUBSET (1..(Len(value) + 1)) :
         /\ Cardinality(cuts) <= MaxCuts
         /\ LET h == HdrChunks(HdrBytes(value), cuts, 1, <<>>)
            IN  hstr' = [pc |-> "iter", value |-> value, h |-> h, str |-> h,
                         out |-> <<>>]
    /\ UNCHANGED <<harnessVars, hp, val, tbl, peers, sockVars, runVars>>

StrNextTo(g) ==
    hstr' = [hstr EXCEPT !.str = g.str, !.out = Append(@, g.v),
                         !.pc = IF g.v = <<>> THEN "done" ELSE "iter"]

\* One call of get_next_str_val(); the caller stops at the empty result.
StrNext ==
    /\ hstr.pc = "iter"
    /\ StrNextTo(get_next_str_val(hstr.str))
    /\ UNCHANGED <<harnessVars, hp, val, tbl, peers, sockVars, runVars>>

\* The header is dropped.
StrDrop ==
    /\ hstr.pc = "done"
    /\ hstr' = [pc |-> "idle"]
    /\ UNCHANGED <<harnessVars, hp, val, tbl, peers, sockVars, runVars>>

InitStr ==
    /\ HarnessInit /\ hp = HpIdle /\ val = ValIdle
    /\ hstr = [pc |-> "idle"] /\ tbl = TblIdle /\ peers = PeersIdle /\ SockInit /\ RunIdle

NextStr ==
    \/ StrParse
    \/ StrNext
    \/ StrDrop

SpecStr == InitStr /\ [][NextStr]_vars

-----------------------------------------------------------------------------
(* The HPACK dynamic table over the messages of one connection *)

MaxMsgs == 2        \* messages allocated on one connection

TBL_STREAMS == {1, 3}
TBL_NAME_LEN == 1
TBL_VALUE_LENS == {500, 1000, 2000, 4063, 4064}

\* A connection starts: test_case_parse_prepare_h2() initialises its context.
TblConnect ==
    /\ tbl.pc = "idle"
    /\ tbl' = [pc |-> "open",
               conn |-> test_case_parse_prepare_h2([total_sz |-> 0]).conn,
               nmsg |-> 0, op |-> "connect", arg |-> <<>>]
    /\ UNCHANGED <<harnessVars, hp, val, hstr, peers, sockVars, runVars>>

\* do_split_and_parse() allocates the next request of the connection.
TblNewMsg ==
    /\ tbl.pc = "open"
    /\ tbl.nmsg < MaxMsgs
    /\ tbl' = [tbl EXCEPT
                 !.conn = AllocStep(FUZZ_REQ_H2, CHUNK_OFF, NullMsg, NullMsg,
                                    tbl.conn, NullMsg, 0, 0).conn,
                 !.nmsg = @ + 1, !.op = "msg", !.arg = <<>>]
    /\ UNCHANGED <<harnessVars, hp, val, hstr, peers, sockVars, runVars>>

\* A HEADERS frame of some stream carries a field with incremental indexing.
TblInsert ==
    /\ tbl.pc = "open"
    /\ tbl.nmsg > 0
    /\ \E st \in TBL_STREAMS, vlen \in TBL_VALUE_LENS :
         LET e == [nlen |-> TBL_NAME_LEN, vlen |-> vlen, stream |-> st,
                   msg |-> tbl.nmsg]
         IN  tbl' = [tbl EXCEPT
                       !.conn.h2.dec_tbl = HPackTblAdd(@, e),
                       !.op = "insert", !.arg = e]
    /\ UNCHANGED <<harnessVars, hp, val, hstr, peers, sockVars, runVars>>

\* The connection ends.
TblClose ==
    /\ tbl.pc = "open"
    /\ tbl' = [pc |-> "idle"]
    /\ UNCHANGED <<harnessVars, hp, val, hstr, peers, sockVars, runVars>>

InitTable ==
    /\ HarnessInit /\ hp = HpIdle /\ val = ValIdle
    /\ hstr = StrIdle /\ tbl = [pc |-> "idle"] /\ peers = PeersIdle /\ SockInit /\ RunIdle

NextTable ==
    \/ TblConnect
    \/ TblNewMsg
    \/ TblInsert
    \/ TblClose

SpecTable == InitTable /\ [][NextTable]_vars

-----------------------------------------------------------------------------
(* Two connections, each with the objects the harness keeps as statics *)

PEERS == {1, 2}

\* What a connection owns: its message objects (req, resp), its HTTP/2
\* context, the buffer it is being fed from and the feeding position.
PeerIdle == [pc |-> "idle"]

PEER_FRAMES ==
    {[type |-> FUZZ_REQ, frame |-> [str |-> d, len |-> Len(d), subtype |-> HTTP2_DATA]]
        : d \in {Str("G\n\n"), Str("P\nc:1\n\nb"), Str("Gx")}}
    \cup {[type |-> FUZZ_RESP,
           frame |-> [str |-> d, len |-> Len(d), subtype |-> HTTP2_DATA]]
        : d \in {Str("2\nx:a\n\n")}}
    \cup {[type |-> FUZZ_REQ_H2, frame |-> HEADERS_FRAME(BuilderInit, hl).frames[1]]
        : hl \in {<<[name |-> STR(Str("m")), value |-> STR(Str("G"))]>>,
                  <<[name |-> STR(Str("x")), value |-> STR(Str("a"))],
                    [name |-> STR(Str("m")), value |-> STR(Str("P"))]>>}}

PEER_CHUNK_SIZES == {CHUNK_SIZES[1], CHUNK_SIZES[2], CHUNK_SIZES[CHUNK_SIZE_CNT]}

\* The objects of a connection when its message is allocated and the first
\* frame is about to be fed with chunk size cs.
PeerStart(in, cs) ==
    LET a == AllocStep(in.type, CHUNK_OFF, NullMsg, NullMsg, [h2 |-> H2CtxInit],
                       tfw_http_parse_req(MsgAlloc, Str("G\n\n")).msg, cs, 0)
        f == FrameStep(in.type, in.frame, [LocInit EXCEPT !.chunk_size = a.chunk_size],
                       a.conn.h2)
    IN  [pc |-> "open", type |-> in.type, frame |-> in.frame, l |-> f.l,
         req |-> a.req, resp |-> a.resp, ctx |-> f.ctx, done |-> FALSE]

PeerFed(p, o) ==
    [p EXCEPT !.l = o.l, !.req = o.req, !.resp = o.resp, !.ctx = o.ctx,
              !.done = o.back]

\* One chunk of the connection's buffer goes to the connection's parser.
PeerStep(p) ==
    PeerFed(p, split_and_parse_n(p.type, p.frame, p.l,
                   ParseCall(p.type, p.req, p.resp, p.ctx, Chunk(p.l, p.frame))))

\* A feed on connection c with the message objects of connection 1 used as
\* the only instance.
PeersFeed_one_instance(ps, c) ==
    IF ps[1].pc = "open"
    THEN [ps EXCEPT ![c] = PeerStep([ps[c] EXCEPT !.req.ps = ps[1].req.ps,
                                                  !.resp.ps = ps[1].resp.ps,
                                                  !.ctx.hpack = ps[1].ctx.hpack])]
    ELSE [ps EXCEPT ![c] = PeerStep(ps[c])]

\* A feed on connection c: only the objects of c are read and written.
PeersFeed(ps, c) == [ps EXCEPT ![c] = PeerStep(ps[c])]

PeerOpen ==
    /\ peers.pc = "on"
    /\ \E c \in PEERS, in \in PEER_FRAMES, cs \in PEER_CHUNK_SIZES :
         /\ peers.c[c].pc = "idle"
         /\ peers' = [peers EXCEPT !.c[c] = PeerStart(in, cs),
                                   !.start[c] = PeerStart(in, cs)]
    /\ UNCHANGED <<harnessVars, hp, val, hstr, tbl, sockVars, runVars>>

PeerFeed ==
    /\ peers.pc = "on"
    /\ \E c \in PEERS :
         /\ peers.c[c].pc = "open"
         /\ ~peers.c[c].done
         /\ peers' = [peers EXCEPT !.c = PeersFeed(@, c)]
    /\ UNCHANGED <<harnessVars, hp, val, hstr, tbl, sockVars, runVars>>

\* The connection is done with its message.
PeerClose ==
    /\ peers.pc = "on"
    /\ \E c \in PEERS :
         /\ peers.c[c].pc = "open"
         /\ peers.c[c].done
         /\ peers' = [peers EXCEPT !.c[c] = PeerIdle, !.start[c] = PeerIdle]
    /\ UNCHANGED <<harnessVars, hp, val, hstr, tbl, sockVars, runVars>>

InitPeers ==
    /\ HarnessInit /\ hp = HpIdle /\ val = ValIdle
    /\ hstr = StrIdle /\ tbl = TblIdle /\ SockInit /\ RunIdle
    /\ peers = [pc |-> "on", c |-> [c \in PEERS |-> PeerIdle],
                start |-> [c \in PEERS |-> PeerIdle]]

NextPeers ==
    \/ PeerOpen
    \/ PeerFeed
    \/ PeerClose

SpecPeers == InitPeers /\ [][NextPeers]_vars

-----------------------------------------------------------------------------
(* sock_clnt.c: the listen sockets *)

ENOBUFS == 105
ENOMEM  == 12
EPERM   == 1
EINVAL  == 22

TFW_FSM_HTTP == "TFW_FSM_HTTP"

\* What sock_create_kern(), bind() and listen() return when they fail.
KERN_ERRS == {-ENOMEM, -EINVAL}

\* The statics and the kernel's sockets as one value.
Statics == [listen_socks |-> listen_socks, listen_socks_n |-> listen_socks_n,
            protos |-> protos, socks |-> socks]

\* The socket sock_create_kern() hands out: one not in use.
NewSock(sk) ==
    CHOOSE s \in DOMAIN sk :
        sk[s] = "free" /\ \A t \in DOMAIN sk : sk[t] = "free" => s <= t

AddOut(st, r, created, released, bug) ==
    [st |-> st, r |-> r, created |-> created, released |-> released, bug |-> bug]

\* add_listen_sock(addr, type) without ++listen_socks_n.
add_listen_sock_no_count(st, type, rc, rb) ==
    IF st.listen_socks_n = LISTEN_SOCKS_MAX
    THEN AddOut(st, -ENOBUFS, NULL, <<>>, FALSE)
    ELSE IF rc # 0
    THEN AddOut(st, rc, NULL, <<>>, FALSE)
    ELSE LET s   == NewSock(st.socks)
             n   == st.listen_socks_n
             st1 == [st EXCEPT !.protos[n] = [type |-> type, hooks |-> "ss_client_hooks"]]
         IN  IF rb # 0
             THEN AddOut(st1, rb, s, <<s>>, FALSE)
             ELSE AddOut([st1 EXCEPT !.socks[s] = "bound",
                                     !.listen_socks[n] = s],
                         0, s, <<>>, st.listen_socks[n] # NULL)

\* add_listen_sock(addr, type) without sock_release() when bind() fails.
add_listen_sock_no_release(st, type, rc, rb) ==
    IF st.listen_socks_n = LISTEN_SOCKS_MAX
    THEN AddOut(st, -ENOBUFS, NULL, <<>>, FALSE)
    ELSE IF rc # 0
    THEN AddOut(st, rc, NULL, <<>>, FALSE)
    ELSE LET s   == NewSock(st.socks)
             n   == st.listen_socks_n
             st1 == [st EXCEPT !.protos[n] = [type |-> type, hooks |-> "ss_client_hooks"]]
         IN  IF rb # 0
             THEN AddOut([st1 EXCEPT !.socks[s] = "created"], rb, s, <<>>, FALSE)
             ELSE AddOut([st1 EXCEPT !.socks[s] = "bound",
                                     !.listen_socks[n] = s,
                                     !.listen_socks_n = n + 1],
                         0, s, <<>>, st.listen_socks[n] # NULL)

\* add_listen_sock(addr, type).  rc, rb: what sock_create_kern() and bind()
\* return.  ss_set_proto() fills protos[listen_socks_n] and ties it to the
\* socket; ss_set_listener() and ss_tcp_set_listen() prepare the socket's
\* callbacks; none of them starts listening.
add_listen_sock(st, type, rc, rb) ==
    IF st.listen_socks_n = LISTEN_SOCKS_MAX
    THEN AddOut(st, -ENOBUFS, NULL, <<>>, FALSE)
    ELSE IF rc # 0
    THEN AddOut(st, rc, NULL, <<>>, FALSE)
    ELSE LET s   == NewSock(st.socks)
             n   == st.listen_socks_n
             st1 == [st EXCEPT !.protos[n] = [type |-> type, hooks |-> "ss_client_hooks"]]
         IN  IF rb # 0
             THEN AddOut(st1, rb, s, <<s>>, FALSE)
             ELSE AddOut([st1 EXCEPT !.socks[s] = "bound",
                                     !.listen_socks[n] = s,
                                     !.listen_socks_n = n + 1],
                         0, s, <<>>, st.listen_socks[n] # NULL)

RECURSIVE start_listen_loop_keeps_going(_, _, _, _, _)
\* The loop of start_listen_socks() going on after a failed listen().
start_listen_loop_keeps_going(st, i, fail_at, err, acc) ==
    IF ~(i < st.listen_socks_n)
    THEN [st |-> st, r |-> IF fail_at < i THEN err ELSE 0, listened |-> acc]
    ELSE IF i = fail_at
    THEN start_listen_loop_keeps_going(st, i + 1, fail_at, err,
                                       Append(acc, st.listen_socks[i]))
    ELSE start_listen_loop_keeps_going(
             [st EXCEPT !.socks[st.listen_socks[i]] = "listening"],
             i + 1, fail_at, err, Append(acc, st.listen_socks[i]))

RECURSIVE start_listen_loop(_, _, _, _, _)
\* FOR_EACH_SOCK(sock, i) of start_listen_socks(): listen() fails with err on
\* the socket of slot fail_at, if the loop gets there.
start_listen_loop(st, i, fail_at, err, acc) ==
    IF ~(i < st.listen_socks_n)
    THEN [st |-> st, r |-> 0, listened |-> acc]
    ELSE IF i = fail_at
    THEN [st |-> st, r |-> err, listened |-> Append(acc, st.listen_socks[i])]
    ELSE start_listen_loop([st EXCEPT !.socks[st.listen_socks[i]] = "listening"],
                           i + 1, fail_at, err, Append(acc, st.listen_socks[i]))

start_listen_socks(st, fail_at, err) == start_listen_loop(st, 0, fail_at, err, <<>>)

RECURSIVE stop_listen_loop(_, _, _)
\* FOR_EACH_SOCK(sock, i) of stop_listen_socks(): sock_release() on each.
\* twice: a socket was released that was not in use.
stop_listen_loop(st, i, acc) ==
    IF ~(i < st.listen_socks_n) THEN [st |-> st, released |-> acc.released,
                                      twice |-> acc.twice]
    ELSE stop_listen_loop([st EXCEPT !.socks[st.listen_socks[i]] = "free"], i + 1,
                          [released |-> Append(acc.released, st.listen_socks[i]),
                           twice |-> acc.twice
                                     \/ st.socks[st.listen_socks[i]] = "free"])

\* stop_listen_socks() that leaves the registry as it is.
stop_listen_socks_keeps_registry(st) ==
    stop_listen_loop(st, 0, [released |-> <<>>, twice |-> FALSE])

\* stop_listen_socks(): the loop, then the memsets and listen_socks_n = 0.
stop_listen_socks(st) ==
    LET l == stop_listen_loop(st, 0, [released |-> <<>>, twice |-> FALSE])
    IN  [l EXCEPT !.st.listen_socks = [i \in DOMAIN @ |-> NULL],
                  !.st.protos = [i \in DOMAIN @ |-> ProtoZero],
                  !.st.listen_socks_n = 0]

\* FOR_EACH_SOCK evaluates sock = listen_socks[i] before it tests
\* i < listen_socks_n: when the loop ends with i = LISTEN_SOCKS_MAX the read
\* is one element past the array and sock holds whatever lies there; the
\* value is not used after the loop.
PastTheEnd(st) ==
    IF st.listen_socks_n < LISTEN_SOCKS_MAX
    THEN {st.listen_socks[st.listen_socks_n]}
    ELSE {NULL, -1}

ToStatics(st) ==
    /\ listen_socks' = st.listen_socks
    /\ listen_socks_n' = st.listen_socks_n
    /\ protos' = st.protos
    /\ socks' = st.socks

\* The 'listen' configuration entries: more than one value; a port in and
\* out of range; an address that parses and one that does not.
CFG_ENTRIES ==
    {[nvals |-> 2, port |-> 80, is_int |-> TRUE, pton |-> 0],
     [nvals |-> 1, port |-> 80, is_int |-> TRUE, pton |-> 0],
     [nvals |-> 1, port |-> 65536, is_int |-> TRUE, pton |-> 0],
     [nvals |-> 1, port |-> 0, is_int |-> FALSE, pton |-> 0],
     [nvals |-> 1, port |-> 0, is_int |-> FALSE, pton |-> -EINVAL]}

\* The checks of handle_listen_cfg_entry() before add_listen_sock().
ListenEntryOk(ce) ==
    /\ ce.nvals = 1
    /\ IF ce.is_int THEN ce.port >= 0 /\ ce.port <= 65535 ELSE ce.pton = 0

AddTo(a) ==
    /\ ToStatics(a.st)
    /\ call' = [CallNone EXCEPT !.fn = "add_listen_sock", !.r = a.r,
                                !.created = a.created, !.released = a.released,
                                !.bug = a.bug]

\* handle_listen_cfg_entry(cs, ce): a 'listen' entry of the configuration.
\* parse_err logs in_str, which is not yet set when the entry fails
\* tfw_cfg_check_single_val(): the log call reads a wild pointer and either
\* prints what it finds or faults.
handle_listen_cfg_entry ==
    /\ \E ce \in CFG_ENTRIES :
         IF ListenEntryOk(ce)
         THEN \E rc \in {0} \cup KERN_ERRS :
              \E rb \in (IF rc = 0 THEN {0} \cup KERN_ERRS ELSE {0}) :
                AddTo(add_listen_sock(Statics, TFW_FSM_HTTP, rc, rb))
         ELSE /\ \E oops \in (IF ce.nvals = 1 THEN {FALSE} ELSE BOOLEAN) :
                   call' = [CallNone EXCEPT !.fn = "handle_listen_cfg_entry",
                                            !.r = -EINVAL, !.oops = oops]
              /\ UNCHANGED <<listen_socks, listen_socks_n, protos, socks>>
    /\ UNCHANGED estab
    /\ UNCHANGED <<harnessVars, hp, val, hstr, tbl, peers, runVars>>

StartTo(l, sock) ==
    /\ ToStatics(l.st)
    /\ call' = [CallNone EXCEPT !.fn = "start_listen_socks", !.r = l.r,
                                !.listened = l.listened, !.sock = sock]

\* tfw_sock_clnt_cfg_mod.start
start_listen_socks_call ==
    /\ \/ \E fail_at \in 0..(listen_socks_n - 1), err \in KERN_ERRS :
            StartTo(start_listen_socks(Statics, fail_at, err), listen_socks[fail_at])
       \/ \E sock \in PastTheEnd(Statics) :
            StartTo(start_listen_socks(Statics, listen_socks_n, 0), sock)
    /\ UNCHANGED estab
    /\ UNCHANGED <<harnessVars, hp, val, hstr, tbl, peers, runVars>>

StopTo(l, sock) ==
    /\ ToStatics(l.st)
    /\ call' = [CallNone EXCEPT !.fn = "stop_listen_socks", !.released = l.released,
                                !.bug = l.twice, !.sock = sock]

\* tfw_sock_clnt_cfg_mod.stop
stop_listen_socks_call ==
    /\ \E sock \in PastTheEnd(Statics) : StopTo(stop_listen_socks(Statics), sock)
    /\ UNCHANGED estab
    /\ UNCHANGED <<harnessVars, hp, val, hstr, tbl, peers, runVars>>

-----------------------------------------------------------------------------
(* sock_clnt.c: the connection hooks *)

MaxClients == 1     \* client sockets accepted in one behaviour

\* A client socket: whether it is open, the TfwConnection hung on it and the
\* client object of that connection ("none", "live", "gone").
ClientSock == [open |-> TRUE, conn |-> "none", client |-> "none"]

\* ss_close(sk): the socket is closed.  Whether closing also destroys a
\* connection hung on the socket is decided outside this file; dropped says
\* which.
ss_close(e, dropped) ==
    [e EXCEPT !.open = FALSE,
              !.conn = IF dropped /\ @ = "live" THEN "gone" ELSE @]

HookOut(e, verdict, r, log) ==
    [sk |-> e, verdict |-> verdict, r |-> r, log |-> log]

\* tfw_client_connect_complete(sk) with the connection allocated before the
\* classifier is asked.
tfw_client_connect_complete_alloc_first(e, verdict, conn_ok, cli_ok, dropped) ==
    IF ~conn_ok
    THEN HookOut(ss_close(e, dropped), verdict, -ENOMEM, <<"tfw_connection_new", "ss_close">>)
    ELSE IF verdict = TFW_BLOCK
    THEN HookOut([e EXCEPT !.conn = "live"], verdict, -EPERM,
                 <<"tfw_connection_new", "tfw_classify_conn_estab">>)
    ELSE IF ~cli_ok
    THEN HookOut(ss_close([e EXCEPT !.conn = "live"], dropped), verdict, -EINVAL,
                 <<"tfw_connection_new", "tfw_classify_conn_estab",
                   "tfw_create_client", "ss_close">>)
    ELSE HookOut([e EXCEPT !.conn = "live", !.client = "live"], verdict, 0,
                 <<"tfw_connection_new", "tfw_classify_conn_estab",
                   "tfw_create_client">>)

\* tfw_client_connect_complete(sk).  verdict: what tfw_classify_conn_estab()
\* returns; conn_ok, cli_ok: whether tfw_connection_new() and
\* tfw_create_client() succeed.
tfw_client_connect_complete(e, verdict, conn_ok, cli_ok, dropped) ==
    IF verdict = TFW_BLOCK
    THEN HookOut(e, verdict, -EPERM, <<"tfw_classify_conn_estab">>)
    ELSE IF ~conn_ok
    THEN HookOut(ss_close(e, dropped), verdict, -ENOMEM,
                 <<"tfw_classify_conn_estab", "tfw_connection_new", "ss_close">>)
    ELSE IF ~cli_ok
    THEN HookOut(ss_close([e EXCEPT !.conn = "live"], dropped), verdict, -EINVAL,
                 <<"tfw_classify_conn_estab", "tfw_connection_new",
                   "tfw_create_client", "ss_close">>)
    ELSE HookOut([e EXCEPT !.conn = "live", !.client = "live"], verdict, 0,
                 <<"tfw_classify_conn_estab", "tfw_connection_new",
                   "tfw_create_client">>)

\* tfw_client_connection_close(sk): tfw_connection_close() destroys the
\* connection of the socket and puts its client.
tfw_client_connection_close(e, verdict) ==
    IF verdict = TFW_BLOCK
    THEN HookOut(e, verdict, -EPERM, <<"tfw_classify_conn_close">>)
    ELSE HookOut([e EXCEPT !.conn = "gone",
                           !.client = IF @ = "live" THEN "gone" ELSE @],
                 verdict, 0, <<"tfw_classify_conn_close", "tfw_connection_close">>)

HookTo(fn, k, h) ==
    /\ estab' = IF k > Len(estab) THEN Append(estab, h.sk)
                ELSE [estab EXCEPT ![k] = h.sk]
    /\ call' = [CallNone EXCEPT !.fn = fn, !.r = h.r, !.log = h.log, !.sk = k,
                                !.verdict = h.verdict]

\* ss_client_hooks.connection_new: a connection was accepted on a listening
\* socket.
connection_new ==
    /\ Len(estab) < MaxClients
    /\ \E i \in 0..(LISTEN_SOCKS_MAX - 1) :
         listen_socks[i] # NULL /\ socks[listen_socks[i]] = "listening"
    /\ \E verdict \in {TFW_PASS, TFW_BLOCK}, conn_ok \in BOOLEAN, cli_ok \in BOOLEAN,
          dropped \in BOOLEAN :
         HookTo("tfw_client_connect_complete", Len(estab) + 1,
                tfw_client_connect_complete(ClientSock, verdict, conn_ok, cli_ok,
                                            dropped))
    /\ UNCHANGED <<listen_socks, listen_socks_n, protos, socks>>
    /\ UNCHANGED <<harnessVars, hp, val, hstr, tbl, peers, runVars>>

\* ss_client_hooks.connection_drop / connection_close: the peer or the
\* socket layer ends a connection.
connection_close ==
    /\ \E k \in 1..Len(estab), verdict \in {TFW_PASS, TFW_BLOCK} :
         /\ estab[k].open
         /\ estab[k].conn = "live"
         /\ HookTo("tfw_client_connection_close", k,
                   tfw_client_connection_close(estab[k], verdict))
    /\ UNCHANGED <<listen_socks, listen_socks_n, protos, socks>>
    /\ UNCHANGED <<harnessVars, hp, val, hstr, tbl, peers, runVars>>

InitSock ==
    /\ HarnessInit /\ hp = HpIdle /\ val = ValIdle
    /\ hstr = StrIdle /\ tbl = TblIdle /\ peers = PeersIdle /\ SockInit /\ RunIdle

NextSock ==
    \/ handle_listen_cfg_entry
    \/ start_listen_socks_call
    \/ stop_listen_socks_call
    \/ connection_new
    \/ connection_close

SpecSock == InitSock /\ [][NextSock]_vars

-----------------------------------------------------------------------------
(* The chunk sizes one test case is tried with: do_split_and_parse called   *)
(* again and again for one prepared case.  The frame loop of a call is the  *)
(* harness state machine above; here what it came to is an input of the     *)
(* call: the result of the parser calls and the parser state they left in   *)
(* the message.                                                             *)

MaxEofCalls == 2    \* calls made after every chunk size was tried

\* frames_max_sz of the prepared case: lengths at and next to the chunk sizes
\* the iteration can stop at.  The frames of an HTTP/2 case lie in
\* frames_str_buf.
ITER_MAX_SZ == {0, 1, 2, 3, 5, 8, 9, 1500, 1501, 9216, 9217,
                CHUNK_SIZES[CHUNK_SIZE_CNT], CHUNK_SIZES[CHUNK_SIZE_CNT] + 1}

ITER_CASES ==
    {[type |-> t, chunk_mode |-> CHUNK_ON, frames_max_sz |-> n]
        : t \in {FUZZ_REQ, FUZZ_RESP}, n \in ITER_MAX_SZ}
    \cup {[type |-> FUZZ_REQ_H2, chunk_mode |-> m, frames_max_sz |-> n]
        : m \in {CHUNK_ON, CHUNK_OFF},
          n \in {k \in ITER_MAX_SZ : k <= FRAMES_STR_BUF_SIZE}}

\* What the frame loop of one call came to: r, the parser state of the
\* message, the bytes accounted in msg.len, the state of the HPACK decoder.
ITER_OUTCOMES ==
    {[r |-> TFW_PASS,     st |-> "Done",  len |-> 3, hst |-> "Type"],
     [r |-> TFW_POSTPONE, st |-> "Val",   len |-> 2, hst |-> "Str"],
     [r |-> TFW_BLOCK,    st |-> "Block", len |-> 0, hst |-> "Block"]}

\* The request a response of the case is paired with.
IterSampleReq == tfw_http_parse_req(MsgAlloc, Str("G\n\n")).msg

\* The message and the decoder as the frame loop leaves them.
IterLeft(msg, o) == [msg EXCEPT !.ps.st = o.st, !.len = o.len]

\* do_split_and_parse(type, chunk_mode), a call that parses: a is what lines
\* 378-410 allocated and chose, o the outcome of the frame loop, f the end
\* of the call.
IterParsed(it, a, o, f) ==
    [it EXCEPT !.req   = IF it.type = FUZZ_RESP THEN a.req ELSE f.req,
               !.resp  = IF it.type = FUZZ_RESP THEN IterLeft(a.resp, o) ELSE a.resp,
               !.conn  = IF it.type = FUZZ_REQ_H2
                         THEN [a.conn EXCEPT !.h2.hpack.st = o.hst]
                         ELSE a.conn,
               !.chunk_size_index = f.chunk_size_index,
               !.ret   = f.l.ret,
               !.calls = @ + 1,
               !.tried = Append(@, a.chunk_size),
               !.start = [msg   |-> IF it.type = FUZZ_RESP THEN a.resp ELSE a.req,
                          hpack |-> a.conn.h2.hpack]]

IterFinish(it, a, o) ==
    IterParsed(it, a, o,
               FinishStep(it.type, it.chunk_mode,
                          [LocInit EXCEPT !.chunk_size = a.chunk_size, !.r = o.r],
                          IF it.type = FUZZ_RESP THEN a.req ELSE IterLeft(a.req, o),
                          it.frames_max_sz, it.chunk_size_index))

\* test_case_parse_prepare_http() / test_case_parse_prepare_h2(): a case is
\* prepared; the message objects are those the previous case left.
IterPrepared(it, c, cn) ==
    [pc |-> "run", type |-> c.type, chunk_mode |-> c.chunk_mode,
     frames_max_sz |-> c.frames_max_sz, chunk_size_index |-> 0,
     req |-> it.req, resp |-> it.resp, conn |-> cn, ret |-> "UNSET",
     calls |-> 0, eofs |-> 0, tried |-> <<>>,
     start |-> [msg |-> NullMsg, hpack |-> HpackInit]]

iter_prepare ==
    /\ iter.pc \in {"idle", "run"}
    /\ \E c \in ITER_CASES :
         iter' = IterPrepared(iter, c,
                     IF c.type = FUZZ_REQ_H2
                     THEN test_case_parse_prepare_h2([total_sz |-> c.frames_max_sz]).conn
                     ELSE iter.conn)
    /\ UNCHANGED split
    /\ UNCHANGED <<harnessVars, hp, val, hstr, tbl, peers, sockVars>>

\* One call of do_split_and_parse for the prepared case.
iter_call ==
    /\ iter.pc = "run"
    /\ IF iter.chunk_size_index = CHUNK_SIZE_CNT
       THEN /\ iter.eofs < MaxEofCalls
            /\ iter' = [iter EXCEPT !.ret = "EOF", !.calls = @ + 1, !.eofs = @ + 1]
       ELSE \E o \in ITER_OUTCOMES :
              iter' = IterFinish(iter,
                          AllocStep(iter.type, iter.chunk_mode, iter.req, iter.resp,
                                    iter.conn, IterSampleReq, iter.frames_max_sz,
                                    iter.chunk_size_index),
                          o)
    /\ UNCHANGED split
    /\ UNCHANGED <<harnessVars, hp, val, hstr, tbl, peers, sockVars>>

InitIter ==
    /\ HarnessInit /\ hp = HpIdle /\ val = ValIdle
    /\ hstr = StrIdle /\ tbl = TblIdle /\ peers = PeersIdle /\ SockInit
    /\ split = SplitIdle
    /\ iter = [pc |-> "idle", req |-> NullMsg, resp |-> NullMsg,
               conn |-> [h2 |-> [H2CtxInit EXCEPT !.hdr_type = HTTP2_DATA]]]

NextIter ==
    \/ iter_prepare
    \/ iter_call

SpecIter == InitIter /\ [][NextIter]_vars

-----------------------------------------------------------------------------
(* One call of split_and_parse_n(str, type, len, chunk_size), pass by pass  *)
(* of its while loop, with the chunks handed to the parser on record.       *)

MaxChunk == 4       \* chunk sizes 1..MaxChunk, and the largest of CHUNK_SIZES

SPLIT_CHUNK_SIZES == (1..MaxChunk) \cup {CHUNK_SIZES[CHUNK_SIZE_CNT]}

\* The buffers: those of the two connections, and buffers whose message ends
\* before the buffer does or is never completed.
SPLIT_FRAMES ==
    PEER_FRAMES
    \cup {[type |-> FUZZ_REQ, frame |-> [str |-> d, len |-> Len(d), subtype |-> HTTP2_DATA]]
            : d \in {Str("G\n\nGG"), Str("G\nx:ab"), Str("G"), Str("H\nx:a\n\n"),
                      Str("P\nc:1\n\nbG")}}
    \cup {[type |-> FUZZ_RESP,
           frame |-> [str |-> d, len |-> Len(d), subtype |-> HTTP2_DATA]]
            : d \in {Str("2\nc:2\n\nabc")}}

\* The call is entered: pos = 0, nothing handed over yet.
split_call ==
    /\ split.pc = "idle"
    /\ \E in \in SPLIT_FRAMES, cs \in SPLIT_CHUNK_SIZES :
         split' = [pc |-> "loop", chunk_size |-> cs, p |-> PeerStart(in, cs),
                   fed |-> <<>>]
    /\ UNCHANGED iter
    /\ UNCHANGED <<harnessVars, hp, val, hstr, tbl, peers, sockVars>>

\* One pass of the while loop: the chunk at str + pos goes to the parser.
split_pass ==
    /\ split.pc = "loop"
    /\ ~split.p.done
    /\ split' = [split EXCEPT
                    !.p = PeerStep(@),
                    !.fed = Append(@, [off  |-> split.p.l.pos,
                                       data |-> Chunk(split.p.l, split.p.frame)])]
    /\ UNCHANGED iter
    /\ UNCHANGED <<harnessVars, hp, val, hstr, tbl, peers, sockVars>>

\* The function returns.
split_return ==
    /\ split.pc = "loop"
    /\ split.p.done
    /\ split' = [pc |-> "idle"]
    /\ UNCHANGED iter
    /\ UNCHANGED <<harnessVars, hp, val, hstr, tbl, peers, sockVars>>

InitSplit ==
    /\ HarnessInit /\ hp = HpIdle /\ val = ValIdle
    /\ hstr = StrIdle /\ tbl = TblIdle /\ peers = PeersIdle /\ SockInit
    /\ iter = IterIdle
    /\ split = [pc |-> "idle"]

NextSplit ==
    \/ split_call
    \/ split_pass
    \/ split_return

SpecSplit == InitSplit /\ [][NextSplit]_vars

-----------------------------------------------------------------------------
(* Properties of the chunked feeding loop *)

\* hist holds one entry per call of do_split_and_parse of the current test
\* case, i.e. one per chunk size tried; the last one has a chunk size no
\* smaller than the longest frame (the frame is fed as one chunk).
WholeChunk(i) == hist[i].chunk_size >= frames_max_sz

\* C1: fragmentation invariance.  Whatever the chunk size a message is fed
\* with, the final outcome and the message object (parsed headers, flags,
\* parser state, accumulated consumed length) are the same as for any other
\* chunk size, the single chunk included.
C1_FragmentationInvariance ==
    \A i, j \in 1..Len(hist) :
        /\ hist[i].r = hist[j].r
        /\ hist[i].msg = hist[j].msg

\* A message with two header fields was fed byte by byte, then in chunks of
\* two, three, four and eight bytes, and at last in one chunk.
C1_Witness ==
    /\ Len(hist) >= 6
    /\ hist[1].chunk_size = 1
    /\ WholeChunk(Len(hist))
    /\ hist[1].r = TFW_PASS
    /\ Len(hist[1].msg.ps.hdrs) >= 2

\* C2: consumed-length exactness.  Whenever a call ends in Pass, the
\* accumulated length of the message equals the length of the message itself
\* (the bytes that follow it in the buffer excluded), for every chunk size;
\* in the cases expected to pass that length is hm_exp_len, and
\* validate_data_fully_parsed finds the two equal.
C2_ConsumedLengthExact ==
    /\ \A i \in 1..Len(hist) :
          hist[i].r = TFW_PASS =>
              /\ hist[i].msg.len = tcase.own_len
              /\ tcase.macro = TFW_PASS => hist[i].msg.len = hm_exp_len
    /\ (pc = "ret" /\ loc.ret = TFW_PASS /\ tcase.macro = TFW_PASS) =>
          (IF tcase.type = FUZZ_RESP THEN resp.len ELSE req.len) = hm_exp_len

\* A message followed by one more byte in the buffer passed with one-byte
\* chunks and with the buffer as a single chunk.
C2_Witness ==
    /\ Len(hist) >= 2
    /\ hist[1].r = TFW_PASS
    /\ hist[1].chunk_size = 1
    /\ WholeChunk(Len(hist))
    /\ hist[Len(hist)].r = TFW_PASS
    /\ tcase.macro = TFW_PASS
    /\ hm_exp_len < frames_total_sz
    /\ hm_exp_len > 0

\* C3: feed protocol.  A chunk reaches the parser only if no chunk of the
\* message was fed yet or the previous feed returned Postpone; once a feed
\* returned Pass or Block no further chunk is fed and that result is what
\* do_split_and_parse returns for the message.
C3_FeedProtocol ==
    [][ /\ (loc'.nfeeds > loc.nfeeds) =>
               /\ loc.last \in {"NONE", TFW_POSTPONE}
               /\ loc'.nfeeds = loc.nfeeds + 1
        /\ (loc.last \in {TFW_PASS, TFW_BLOCK} /\ pc # "call") =>
               /\ loc'.nfeeds = loc.nfeeds
               /\ loc'.last = loc.last
               /\ (pc = "finish" => loc'.ret = loc.last)
      ]_vars

\* A message was blocked on its second chunk with bytes of its frame still
\* unfed, and Block was returned.
C3_Witness ==
    /\ pc = "ret"
    /\ loc.ret = TFW_BLOCK
    /\ loc.last = TFW_BLOCK
    /\ loc.nfeeds = 2
    /\ loc.pos < frames[loc.frame_index + 1].len

\* The header fields of the HEADERS frames of a builder block, in order.
ProgHdrs(prog) == Flatten([i \in 1..Len(prog) |-> prog[i].hdrs])

\* How many fields of the block bear the given name.
NameCount(prog, name) ==
    Cardinality({i \in 1..Len(ProgHdrs(prog)) : DataBytes(ProgHdrs(prog)[i].name) = name})

EmptyDataNotLast ==
    /\ tcase.type = FUZZ_REQ_H2
    /\ loc.frame_index + 1 < frames_cnt
    /\ frames[loc.frame_index + 1].subtype = HTTP2_DATA
    /\ frames[loc.frame_index + 1].len = 0

\* C5: a zero-length DATA frame that is not the last frame results in
\* Postpone without a parser call and without touching the request, and the
\* loop goes on with the next frame: it neither completes nor ends the
\* request.
C5_EmptyDataPostpones ==
    [][ /\ (pc = "frame" /\ EmptyDataNotLast) =>
               /\ pc' = "after"
               /\ loc'.r = TFW_POSTPONE
               /\ loc'.nfeeds = loc.nfeeds
               /\ req' = req
        /\ (pc = "after" /\ EmptyDataNotLast) =>
               /\ pc' = "frame"
               /\ loc'.frame_index = loc.frame_index + 1
               /\ loc'.ret = "UNSET"
               /\ req' = req
      ]_vars

\* The loop stands after an empty DATA frame, with a HEADERS frame to come.
C5_Witness ==
    /\ pc = "after"
    /\ EmptyDataNotLast
    /\ loc.r = TFW_POSTPONE
    /\ frames[loc.frame_index + 2].subtype = HTTP2_HEADERS

\* The loop stands after a HEADERS frame of an HTTP/2 case whose feed
\* returned Postpone.
HeadersDecoded ==
    /\ pc = "after"
    /\ tcase.type = FUZZ_REQ_H2
    /\ frames[loc.frame_index + 1].subtype = HTTP2_HEADERS
    /\ loc.r = TFW_POSTPONE

\* The request names a method that has no body and declares a body.
BodylessWithBody(rq) ==
    /\ rq.ps.method \in BODYLESS_METHODS
    /\ \E i \in 1..Len(rq.ps.hdrs) : rq.ps.hdrs[i][1] = NAME_C

\* C6: right after a HEADERS frame is decoded the bodyless-method check
\* decides: a body with a bodyless method gives Block at once (the loop is
\* left, no frame is fed any more, the flag is not set), otherwise the
\* 'headers parsed' flag is set and the loop goes on.  No other step sets
\* the flag.
C6_BodylessCheck ==
    [][ /\ (HeadersDecoded /\ BodylessWithBody(req)) =>
               /\ loc'.r = TFW_BLOCK
               /\ pc' = "finish"
               /\ loc'.nfeeds = loc.nfeeds
               /\ req'.flags = req.flags
        /\ (HeadersDecoded /\ ~BodylessWithBody(req)) =>
               /\ TFW_HTTP_B_HEADERS_PARSED \in req'.flags
               /\ pc' = "frame"
        /\ (TFW_HTTP_B_HEADERS_PARSED \in req'.flags
              /\ TFW_HTTP_B_HEADERS_PARSED \notin req.flags) =>
               (HeadersDecoded /\ ~BodylessWithBody(req))
        /\ (pc = "finish" /\ loc.r = TFW_BLOCK) => loc'.ret = TFW_BLOCK
      ]_vars

\* A bodyless method with a declared body was blocked after its HEADERS
\* frame, a DATA frame being left unfed.
C6_Witness ==
    /\ pc = "finish"
    /\ tcase.type = FUZZ_REQ_H2
    /\ loc.r = TFW_BLOCK
    /\ loc.last = TFW_POSTPONE
    /\ BodylessWithBody(req)
    /\ TFW_HTTP_B_HEADERS_PARSED \notin req.flags
    /\ loc.frame_index + 1 < frames_cnt

-----------------------------------------------------------------------------
(* Properties of the literal-header builder and the prefix integer *)

RECURSIVE ContValue(_)
\* The number a sequence of continuation octets stands for.
ContValue(octets) ==
    IF octets = <<>> THEN 0
    ELSE (Head(octets) % 128) + 128 * ContValue(Tail(octets))

\* The octets tfw_h2_encode_data put before the bytes of the string.
LenPrefix == SubSeq(hp.buf, 1, Len(hp.buf) - Len(hp.value))

\* C8: prefix-integer coding with the 7-bit prefix of string lengths.  A
\* length below 127 is the first octet alone; any other length is the octet
\* 127 followed by continuation octets of 7 bits each, all with bit 7 set
\* but the last one; the decoder stops at that octet with the length that
\* was encoded, whatever the split of the octets across feeds.
C8_PrefixInteger ==
    (hp.pc \in {"feed", "done"} /\ hp.kind = "data") =>
        /\ hp.ret = Len(hp.buf)
        /\ Len(LenPrefix) >= 1
        /\ Len(hp.value) < 127 => LenPrefix = <<Len(hp.value)>>
        /\ Len(hp.value) >= 127 =>
              /\ Len(LenPrefix) >= 2
              /\ LenPrefix[1] = 127
              /\ \A i \in 2..(Len(LenPrefix) - 1) : LenPrefix[i] >= 128
              /\ LenPrefix[Len(LenPrefix)] < 128
              /\ 127 + ContValue(Tail(LenPrefix)) = Len(hp.value)
        /\ hp.r # TFW_BLOCK
        /\ (hp.pos >= Len(LenPrefix) /\ hp.nfeeds > 0) => hp.hs.int = Len(hp.value)
        /\ hp.pc = "done" => hp.ps.hdrs = <<<<<<>>, hp.value>>>>

\* A length coded in three octets was decoded with the octets in separate
\* feeds.
C8_Witness ==
    /\ hp.pc = "done"
    /\ hp.kind = "data"
    /\ Len(LenPrefix) = 3
    /\ hp.nfeeds >= 4
    /\ hp.hs.int = 16384

-----------------------------------------------------------------------------
(* Properties of the numeric and ETag values *)

AllDigits(d) == \A i \in 1..Len(d) : d[i] \in 48..57

RECURSIVE StripZeros(_)
\* A string of digits without its leading zeros.
StripZeros(d) ==
    IF d # <<>> /\ Head(d) = 48 THEN StripZeros(Tail(d)) ELSE d

\* a < b for strings of digits without leading zeros
DecLess(a, b) ==
    \/ Len(a) < Len(b)
    \/ /\ Len(a) = Len(b)
       /\ \E i \in 1..Len(a) :
            /\ a[i] < b[i]
            /\ \A j \in 1..(i - 1) : a[j] = b[j]

\* 2^width in decimal
WidthLimit ==
    [w \in NUM_WIDTHS |->
        CASE w = 16 -> Str("65536")
          [] w = 32 -> Str("4294967296")
          [] w = 63 -> Str("9223372036854775808")
          [] OTHER  -> Str("18446744073709551616")]

RECURSIVE ValueDigits(_)
\* The decimal digits of a parsed value (four digits to the limb).
ValueDigits(v) ==
    IF v = <<>> THEN <<>>
    ELSE ValueDigits(Tail(v))
         \o <<48 + (Head(v) \div 1000), 48 + ((Head(v) \div 100) % 10),
              48 + ((Head(v) \div 10) % 10), 48 + (Head(v) % 10)>>

InRange(d, w) ==
    /\ d # <<>>
    /\ AllDigits(d)
    /\ DecLess(StripZeros(d), WidthLimit[w])

\* C9: numeric header validation.  A value passes exactly when it is a
\* non-empty string of decimal digits whose value is below 2^width, and the
\* value reported is then exactly that number; everything else is blocked:
\* the values of EXPECT_BLOCK_DIGITS for fields of 32 bits or less, those of
\* EXPECT_BLOCK_SHORT for fields of 16 bits.  "0" and "65535" pass.
C9_NumericValidation ==
    (val.pc = "num_done") =>
        /\ val.out.r \in {TFW_PASS, TFW_BLOCK}
        /\ val.out.r = TFW_PASS <=> InRange(val.data, val.width)
        /\ val.out.r = TFW_PASS =>
              StripZeros(ValueDigits(val.out.value)) = StripZeros(val.data)
        /\ val.out.r = TFW_BLOCK => val.out.value = <<>>
        /\ (val.data \in EXPECT_BLOCK_DIGITS /\ val.width <= 32) => val.out.r = TFW_BLOCK
        /\ (val.data \in EXPECT_BLOCK_SHORT /\ val.width = 16) => val.out.r = TFW_BLOCK
        /\ val.data \in {Str("0"), Str("65535")} => val.out.r = TFW_PASS

\* 65535 passed and 4294967295 was blocked for a field of 16 bits.
C9_Witness ==
    /\ val.pc = "num_done"
    /\ val.width = 16
    /\ val.data = Str("65535")
    /\ val.out.r = TFW_PASS
    /\ val.out.value = <<5535, 6>>

\* The entity-tag grammar on a whole value.
EtagBody(d) ==
    IF Len(d) >= 2 /\ d[1] = ETAG_W /\ d[2] = SLASH THEN SubSeq(d, 3, Len(d)) ELSE d

EtagChar(b) == b = 33 \/ (b >= 35 /\ b <= 126) \/ b >= 128

WellFormedEtag(d) ==
    /\ Len(EtagBody(d)) >= 3
    /\ EtagBody(d)[1] = DQUOTE
    /\ EtagBody(d)[Len(EtagBody(d))] = DQUOTE
    /\ \A i \in 2..(Len(EtagBody(d)) - 1) : EtagChar(EtagBody(d)[i])

\* C10: ETag / If-None-Match grammar.  A value passes exactly when it is an
\* optional W/ followed at once by a double quote, one etag character or
\* more, and a double quote; the values of COMMON_ETAG_BLOCK (a quote
\* missing, single quotes, a blank after W/, a lowercase w/, a control
\* character or a blank inside the quotes, three quotes) and the empty
\* quoted value are blocked, as written and as C strings; "dummy" in double
\* quotes passes.
C10_EtagGrammar ==
    (val.pc = "etag_done") =>
        /\ val.out \in {TFW_PASS, TFW_BLOCK}
        /\ val.out = TFW_PASS <=> WellFormedEtag(val.data)
        /\ val.written \in COMMON_ETAG_BLOCK => val.out = TFW_BLOCK
        /\ val.written = <<DQUOTE, DQUOTE>> => val.out = TFW_BLOCK
        /\ val.written = Str("\"dummy\"") => val.out = TFW_PASS

\* A blank between the quotes was blocked.
C10_Witness ==
    /\ val.pc = "etag_done"
    /\ val.written = Str("\" \"")
    /\ val.data = val.written
    /\ val.out = TFW_BLOCK

-----------------------------------------------------------------------------
(* Properties of the value iterator *)

RECURSIVE Tokens(_, _, _, _)
\* The values of a field value as written: the maximal runs of bytes that
\* are neither a comma nor a blank, in order.
Tokens(value, i, cur, acc) ==
    IF i > Len(value)
    THEN IF cur = <<>> THEN acc ELSE Append(acc, cur)
    ELSE IF value[i] \in {COMMA, SP}
    THEN Tokens(value, i + 1, <<>>, IF cur = <<>> THEN acc ELSE Append(acc, cur))
    ELSE Tokens(value, i + 1, Append(cur, value[i]), acc)

StrFlat(v) == Flatten([i \in 1..Len(v) |-> v[i].data])

\* C11: the k-th call of the value iterator returns exactly the k-th value
\* of the header as written, made only of chunks flagged as value, however
\* the header was cut into chunks; the call after the last value returns the
\* empty string and ends the iteration; "a, b,c" gives "a", "b", "c".
C11_ValueIteration ==
    hstr.pc \in {"iter", "done"} =>
        LET toks == Tokens(hstr.value, 1, <<>>, <<>>)
            n    == Len(hstr.out)
        IN  /\ n <= Len(toks) + 1
            /\ \A k \in 1..n :
                 /\ \A j \in 1..Len(hstr.out[k]) :
                        TFW_STR_VALUE \in hstr.out[k][j].flags
                 /\ IF k <= Len(toks)
                    THEN StrFlat(hstr.out[k]) = toks[k]
                    ELSE hstr.out[k] = <<>>
            /\ hstr.pc = "done" <=> n = Len(toks) + 1
            /\ (hstr.pc = "done" /\ hstr.value = Str("a, b,c")) =>
                   [k \in 1..3 |-> StrFlat(hstr.out[k])]
                       = <<Str("a"), Str("b"), Str("c")>>

\* "ab, cd" was cut inside its first value and inside the separator, and
\* the iteration returned both values and ended.
C11_Witness ==
    /\ hstr.pc = "done"
    /\ hstr.value = Str("ab, cd")
    /\ Len(hstr.h) = 6
    /\ Len(hstr.out) = 3
    /\ Len(hstr.out[1]) = 2

-----------------------------------------------------------------------------
(* Properties of response pairing *)

-----------------------------------------------------------------------------
(* Properties of the HPACK dynamic table *)

TblOf(t) == t.conn.h2.dec_tbl

TblWeight(es) == SeqSum([i \in 1..Len(es) |-> HPackEntrySize(es[i])])

\* C13: the table of a connection never weighs more than its budget; an
\* insertion drops entries from the oldest end only, and only as many as
\* needed for the new entry to fit, which then is the newest entry; the
\* table is set up when the connection starts and is left as it is when a
\* new message is allocated.
C13_DynamicTable ==
    [][ /\ tbl'.pc = "open" =>
             /\ TblWeight(TblOf(tbl').entries) <= HPACK_TABLE_BUDGET
             /\ TblOf(tbl').size = TblWeight(TblOf(tbl').entries)
        /\ (tbl'.pc = "open" /\ tbl'.op = "connect") => TblOf(tbl').entries = <<>>
        /\ (tbl'.pc = "open" /\ tbl'.op = "msg") => TblOf(tbl') = TblOf(tbl)
        /\ (tbl'.pc = "open" /\ tbl'.op = "insert") =>
             LET old  == TblOf(tbl).entries
                 new  == TblOf(tbl').entries
                 e    == tbl'.arg
                 fits == HPackEntrySize(e) <= HPACK_TABLE_BUDGET
                 kept == IF fits THEN Len(new) - 1 ELSE Len(new)
                 gone == Len(old) - kept
             IN  /\ fits => (new # <<>> /\ new[Len(new)] = e)
                 /\ ~fits => new = <<>>
                 /\ gone >= 0
                 /\ SubSeq(new, 1, kept) = SubSeq(old, gone + 1, Len(old))
                 /\ gone > 0 =>
                      TblWeight(SubSeq(old, gone, Len(old))) + HPackEntrySize(e)
                          > HPACK_TABLE_BUDGET
      ]_vars

\* During the second message of the connection an insertion by one stream
\* evicted the oldest entry; the table still holds an entry the other stream
\* inserted during the first message.
C13_Witness ==
    /\ tbl.pc = "open"
    /\ tbl.op = "insert"
    /\ tbl.nmsg = 2
    /\ Len(TblOf(tbl).entries) = 2
    /\ TblOf(tbl).entries[1].msg = 1
    /\ TblOf(tbl).entries[1].stream # TblOf(tbl).entries[2].stream
    /\ TblOf(tbl).size + 1033 > HPACK_TABLE_BUDGET

-----------------------------------------------------------------------------
(* Properties of parser instances *)

RECURSIVE PeerRun(_)
\* The connection fed on its own until its message is settled.
PeerRun(p) == IF p.done THEN p ELSE PeerRun(PeerStep(p))

PeerResult(p) == [r |-> p.l.sr, req |-> p.req, resp |-> p.resp, ctx |-> p.ctx,
                  nfeeds |-> p.l.nfeeds]

-----------------------------------------------------------------------------
(* Properties of the listen sockets *)

RegistryOk(ls, n, sk, c) ==
    /\ n \in 0..LISTEN_SOCKS_MAX
    /\ \A i \in 0..(LISTEN_SOCKS_MAX - 1) :
         IF i < n
         THEN ls[i] # NULL /\ sk[ls[i]] \in {"bound", "listening"}
         ELSE ls[i] = NULL
    /\ \A i, j \in 0..(n - 1) : ls[i] = ls[j] => i = j
    /\ ~c.bug

\* C15: at any time 0 <= listen_socks_n <= 8, the slots below listen_socks_n
\* hold bound sockets, each its own, the slots from listen_socks_n on are
\* empty, and BUG_ON never fires; an add with 8 sockets registered returns
\* -ENOBUFS and creates no socket.
C15_RegistryInvariant ==
    [][ /\ RegistryOk(listen_socks, listen_socks_n, socks, call)
        /\ RegistryOk(listen_socks', listen_socks_n', socks', call')
        /\ (call'.fn = "add_listen_sock" /\ listen_socks_n = LISTEN_SOCKS_MAX) =>
               /\ call'.r = -ENOBUFS
               /\ call'.created = NULL
               /\ socks' = socks
               /\ listen_socks' = listen_socks
               /\ listen_socks_n' = listen_socks_n
      ]_vars

\* An add was refused with all eight slots taken; some of the sockets are
\* listening.
C15_Witness ==
    /\ call.fn = "add_listen_sock"
    /\ call.r = -ENOBUFS
    /\ listen_socks_n = LISTEN_SOCKS_MAX
    /\ socks[listen_socks[0]] = "listening"
    /\ socks[listen_socks[LISTEN_SOCKS_MAX - 1]] = "bound"

\* C16: an add that returns an error leaves listen_socks and listen_socks_n
\* as they were and leaves no socket of its own in use; an add returns 0
\* exactly when it appended one new bound socket at slot listen_socks_n.
C16_AddAtomic ==
    [][ call'.fn = "add_listen_sock" =>
          IF call'.r # 0
          THEN /\ listen_socks' = listen_socks
               /\ listen_socks_n' = listen_socks_n
               /\ socks' = socks
               /\ call'.created # NULL => call'.released = <<call'.created>>
          ELSE /\ call'.created # NULL
               /\ socks[call'.created] = "free"
               /\ socks' = [socks EXCEPT ![call'.created] = "bound"]
               /\ call'.released = <<>>
               /\ listen_socks_n < LISTEN_SOCKS_MAX
               /\ listen_socks_n' = listen_socks_n + 1
               /\ listen_socks' = [listen_socks EXCEPT ![listen_socks_n] = call'.created]
      ]_vars

\* bind() failed with two sockets registered: the socket the call created
\* was released.
C16_Witness ==
    /\ call.fn = "add_listen_sock"
    /\ call.r # 0
    /\ call.created # NULL
    /\ call.released = <<call.created>>
    /\ socks[call.created] = "free"
    /\ listen_socks_n = 2

\* C17: an add never makes a socket listen; a socket starts to listen only
\* in start_listen_socks, which calls listen on the registered sockets in
\* slot order, stops at the first failure and returns its error, and returns
\* 0 only with every registered socket listening.
C17_BindBeforeListen ==
    [][ /\ (\E s \in DOMAIN socks : socks'[s] = "listening" /\ socks[s] # "listening")
               => call'.fn = "start_listen_socks"
        /\ call'.fn = "add_listen_sock" =>
               (call'.created # NULL => socks'[call'.created] # "listening")
        /\ call'.fn = "start_listen_socks" =>
               LET k == Len(call'.listened)
               IN  /\ k <= listen_socks_n
                   /\ call'.listened = [i \in 1..k |-> listen_socks[i - 1]]
                   /\ \A i \in 0..(listen_socks_n - 1) :
                        IF i < (IF call'.r = 0 THEN k ELSE k - 1)
                        THEN socks'[listen_socks[i]] = "listening"
                        ELSE socks'[listen_socks[i]] = socks[listen_socks[i]]
                   /\ call'.r = 0 =>
                        (k = listen_socks_n
                         /\ \A i \in 0..(listen_socks_n - 1) :
                                socks'[listen_socks[i]] = "listening")
                   /\ call'.r # 0 => (k >= 1 /\ call'.r \in KERN_ERRS)
                   /\ listen_socks' = listen_socks
                   /\ listen_socks_n' = listen_socks_n
      ]_vars

\* listen() failed on the second of three registered sockets: the first
\* listens, the third was not touched.
C17_Witness ==
    /\ call.fn = "start_listen_socks"
    /\ call.r # 0
    /\ Len(call.listened) = 2
    /\ listen_socks_n = 3
    /\ socks[listen_socks[0]] = "listening"
    /\ socks[listen_socks[1]] = "bound"
    /\ socks[listen_socks[2]] = "bound"

\* C18: a stop releases each registered socket once, in slot order, and
\* leaves the statics as they were before the first add (listen_socks_n = 0,
\* every slot and every protos entry zero, no socket in use), so that eight
\* sockets can be added again; a stop right after a stop releases nothing.
C18_StopResets ==
    [][ call'.fn = "stop_listen_socks" =>
          /\ call'.released = [i \in 1..listen_socks_n |-> listen_socks[i - 1]]
          /\ \A i, j \in 1..Len(call'.released) :
                 call'.released[i] = call'.released[j] => i = j
          /\ ~call'.bug
          /\ listen_socks_n' = 0
          /\ \A i \in 0..(LISTEN_SOCKS_MAX - 1) :
                 listen_socks'[i] = NULL /\ protos'[i] = ProtoZero
          /\ \A s \in DOMAIN socks : socks'[s] = "free"
          /\ call.fn = "stop_listen_socks" => call'.released = <<>>
      ]_vars

\* A stop released eight sockets.
C18_Witness ==
    /\ call.fn = "stop_listen_socks"
    /\ Len(call.released) = LISTEN_SOCKS_MAX
    /\ listen_socks_n = 0

-----------------------------------------------------------------------------
(* Properties of the connection hooks *)

\* C19: tfw_client_connect_complete asks the classifier before it calls
\* anything else; when the classifier says TFW_BLOCK the hook returns -EPERM
\* having called nothing else, and the socket has neither a connection nor a
\* client.
C19_ClassifyFirst ==
    [][ call'.fn = "tfw_client_connect_complete" =>
          /\ call'.log # <<>>
          /\ call'.log[1] = "tfw_classify_conn_estab"
          /\ call'.verdict = TFW_BLOCK =>
                 /\ call'.r = -EPERM
                 /\ call'.log = <<"tfw_classify_conn_estab">>
                 /\ estab'[call'.sk].conn = "none"
                 /\ estab'[call'.sk].client = "none"
      ]_vars

\* The classifier blocked a new connection.
C19_Witness ==
    /\ call.fn = "tfw_client_connect_complete"
    /\ call.verdict = TFW_BLOCK
    /\ call.r = -EPERM
    /\ estab[call.sk].conn = "none"

-----------------------------------------------------------------------------
(* Properties of the chunk-size iteration *)

\* The message a parsing call of do_split_and_parse starts from, by type.
FreshMsg(type) ==
    CASE type = FUZZ_REQ    -> MsgAlloc
      [] type = FUZZ_REQ_H2 -> [MsgAlloc EXCEPT !.flags = {TFW_HTTP_B_H2}]
      [] OTHER              -> [MsgAlloc EXCEPT !.pair = PairOf(IterSampleReq)]

\* C21: the chunk-size iteration terminates.  For one prepared case a call
\* of do_split_and_parse that parses strictly increases chunk_size_index: by
\* one, or straight to CHUNK_SIZE_CNT in CHUNK_OFF mode or once the size
\* tried is no smaller than frames_max_sz.  So at most 13 calls parse, the
\* sizes tried increase, none is tried after the first one that is no
\* smaller than frames_max_sz, and every later call returns the positive
\* value (EOF) without parsing or touching the objects.  A call that parses
\* starts from a freshly allocated message in its initial parser state (and,
\* for HTTP/2, the HPACK decoder at the start of a field), whatever the
\* previous call left.
C21_ChunkSizeIteration ==
    [][ (iter.pc = "run" /\ iter'.pc = "run" /\ iter'.calls = iter.calls + 1) =>
          IF iter.chunk_size_index = CHUNK_SIZE_CNT
          THEN /\ iter'.ret = "EOF"
               /\ iter'.tried = iter.tried
               /\ iter'.chunk_size_index = CHUNK_SIZE_CNT
               /\ iter'.req = iter.req
               /\ iter'.resp = iter.resp
               /\ iter'.conn = iter.conn
          ELSE /\ iter'.ret # "EOF"
               /\ iter'.chunk_size_index > iter.chunk_size_index
               /\ iter'.chunk_size_index \in {iter.chunk_size_index + 1, CHUNK_SIZE_CNT}
               /\ (\/ iter.chunk_mode = CHUNK_OFF
                   \/ iter'.tried[Len(iter'.tried)] >= iter.frames_max_sz)
                     => iter'.chunk_size_index = CHUNK_SIZE_CNT
               /\ Len(iter'.tried) = Len(iter.tried) + 1
               /\ Len(iter'.tried) <= 13
               /\ \A i, j \in 1..Len(iter'.tried) :
                     i < j => iter'.tried[i] < iter'.tried[j]
               /\ \A i \in 1..(Len(iter'.tried) - 1) :
                     iter'.tried[i] < iter.frames_max_sz
               /\ iter'.start.msg = FreshMsg(iter.type)
               /\ iter.type = FUZZ_REQ_H2 => iter'.start.hpack.st = HpackInit.st
      ]_vars

\* All thirteen chunk sizes were tried on a case longer than the largest of
\* them, the last parsing call having started from a fresh message after a
\* call that left its message blocked, and the call after that returned EOF.
C21_Witness ==
    /\ iter.pc = "run"
    /\ Len(iter.tried) = CHUNK_SIZE_CNT
    /\ iter.frames_max_sz > CHUNK_SIZES[CHUNK_SIZE_CNT]
    /\ iter.chunk_size_index = CHUNK_SIZE_CNT
    /\ iter.ret = "EOF"
    /\ iter.eofs = 1
    /\ iter.req.ps.st = "Block"
    /\ iter.start.msg = MsgAlloc

-----------------------------------------------------------------------------
(* Properties of split_and_parse_n *)

\* The bytes handed to the parser by the first n passes of the call.
SplitHanded(fed, n) == IF n = 0 THEN 0 ELSE fed[n].off + Len(fed[n].data)

\* The message the call accumulates the consumed bytes in.
SplitMsg(p) == IF p.type = FUZZ_RESP THEN p.resp ELSE p.req

\* C22: the chunks of split_and_parse_n.  For a buffer of len >= 1 bytes and
\* a chunk size >= 1, every chunk handed to the parser is non-empty and at
\* most chunk_size bytes long; the first starts at offset 0 and each next one
\* where the previous ended, so the chunks are the bytes of the buffer in wire
\* order, without gap or overlap, and never reach past len.  If every pass
\* returned Postpone, the call ends with the chunks covering exactly
\* [0, len) and pos = len (the BUG_ON holds).  The accumulated msg.len never
\* exceeds the number of bytes handed over so far.
C22_ChunkCoverage ==
    split.pc = "loop" =>
        /\ split.p.frame.len >= 1
        /\ split.chunk_size >= 1
        /\ \A i \in 1..Len(split.fed) :
              /\ Len(split.fed[i].data) \in 1..split.chunk_size
              /\ split.fed[i].off = SplitHanded(split.fed, i - 1)
              /\ split.fed[i].data =
                    SubSeq(split.p.frame.str, split.fed[i].off + 1,
                           SplitHanded(split.fed, i))
        /\ SplitHanded(split.fed, Len(split.fed)) <= split.p.frame.len
        /\ split.p.l.pos = SplitHanded(split.fed, Len(split.fed))
        /\ (split.p.done /\ split.p.l.last = TFW_POSTPONE) =>
              SplitHanded(split.fed, Len(split.fed)) = split.p.frame.len
        /\ SplitMsg(split.p).len <= SplitHanded(split.fed, Len(split.fed))

\* A buffer of ten bytes was handed over in chunks of three, three, three
\* and one byte, every pass returning Postpone, and the loop ended at
\* pos = len.
C22_Witness ==
    /\ split.pc = "loop"
    /\ split.p.done
    /\ split.p.l.last = TFW_POSTPONE
    /\ split.chunk_size = 3
    /\ Len(split.fed) = 4
    /\ Len(split.fed[4].data) = 1
    /\ split.p.l.pos = split.p.frame.len



=============================================================================
